---- MODULE Spec2Model ----
(***************************************************************************)
(* Patch-lifecycle and comment-state subsystem of the PR automation        *)
(* scripts: the STATUS / ISSUE_DATA codec, the apply gate, the patch       *)
(* applier and the downstream patch refresh.                               *)
(*                                                                         *)
(* Text is modelled lexically: a comment body, a patch and a JSON payload  *)
(* are sequences of tokens, each token standing for a fixed piece of text  *)
(* ("<!--", "STATUS:", one newline, one word, one backslash ...).  The     *)
(* regular expressions and string operations of the source are evaluated   *)
(* on these sequences the way Python evaluates them on the characters.     *)
(***************************************************************************)
EXTENDS Integers, Sequences, FiniteSets, TLC

(***************************************************************************)
(* Tokens                                                                  *)
(***************************************************************************)
T(name) == [t |-> name, s |-> "", n |-> 0]

OPEN      == T("<!--")
CLOSE     == T("-->")
STATUSKW  == T("STATUS:")
ISSUEKW   == T("ISSUE_DATA:")
SP        == T(" ")
NL        == T("\\n")
HYPHEN    == T("-")
BOT       == T("**BOT")
TXT       == T("text")
RULE      == T("---")

W(word) == [t |-> "word", s |-> word, n |-> 0]

\* comment_state.py:26-27
APPLY_LOGS_LINE == T("Reply with /apply-logs to apply this change automatically.")
APPLIED_LINE    == T("Applied")

\* comment_state.py:20-23
STATE_ANALYZED      == "analyzed"
STATE_APPLIED       == "applied"
STATE_GC_INTEGRATED == "gc-integrated"
COMMENT_STATES      == {STATE_ANALYZED, STATE_APPLIED, STATE_GC_INTEGRATED}
None                == "None"

\* The text of a state name as \w-runs and hyphens, and back (str.lower() of a
\* matched \w+ group; the only group texts the alphabet of the model can produce).
StateWords(state) ==
    IF state = STATE_GC_INTEGRATED THEN <<W("gc"), HYPHEN, W("integrated")>>
    ELSE <<W(state)>>

IsWs(tok)   == tok \in {SP, NL}
IsWord(tok) == tok.t = "word"

\* first index >= i whose token is not whitespace (Len+1 when none): \s*
SkipWs(b, i) ==
    CHOOSE j \in i..(Len(b) + 1) :
        /\ \A k \in i..(j - 1) : IsWs(b[k])
        /\ (j = Len(b) + 1 \/ ~IsWs(b[j]))

\* first index >= i whose token is not a word token: the end of a greedy \w+
SkipWord(b, i) ==
    CHOOSE j \in i..(Len(b) + 1) :
        /\ \A k \in i..(j - 1) : IsWord(b[k])
        /\ (j = Len(b) + 1 \/ ~IsWord(b[j]))

\* str.rstrip()
RStrip(b) ==
    LET keep == CHOOSE j \in 0..Len(b) :
                   /\ \A k \in (j + 1)..Len(b) : IsWs(b[k])
                   /\ (j = 0 \/ ~IsWs(b[j]))
    IN SubSeq(b, 1, keep)

\* a local name: the value v under the name the operator F gives it
Bind(v, F(_)) == F(v)

\* needle occurs in b at index i
OccursAt(b, needle, i) ==
    /\ i >= 1
    /\ i + Len(needle) - 1 <= Len(b)
    /\ \A k \in 1..Len(needle) : b[i + k - 1] = needle[k]

Contains(b, needle) == \E i \in 1..Len(b) : OccursAt(b, needle, i)

\* str.replace(old, new, 1)
ReplaceFirst(b, old, new) ==
    IF ~Contains(b, old) THEN b
    ELSE LET i == CHOOSE p \in 1..Len(b) :
                     OccursAt(b, old, p) /\ \A q \in 1..(p - 1) : ~OccursAt(b, old, q)
         IN SubSeq(b, 1, i - 1) \o new \o SubSeq(b, i + Len(old), Len(b))

(***************************************************************************)
(* STATUS marker codec (shared/comment_state.py)                           *)
(***************************************************************************)
NoMatch == [found |-> FALSE, start |-> 0, stop |-> 0, g1 |-> 0, g2 |-> 0]

\* r"<!--\s*STATUS:\s*(\w+)\s*-->" anchored at index i
STATUS_RE_at(b, i) ==
    IF i > Len(b) \/ b[i] # OPEN THEN NoMatch
    ELSE Bind(SkipWs(b, i + 1), LAMBDA j1 :
    IF j1 > Len(b) \/ b[j1] # STATUSKW THEN NoMatch
    ELSE Bind(SkipWs(b, j1 + 1), LAMBDA j2 :
         Bind(SkipWord(b, j2), LAMBDA j3 :
    IF j3 = j2 THEN NoMatch
    ELSE Bind(SkipWs(b, j3), LAMBDA j4 :
    IF j4 > Len(b) \/ b[j4] # CLOSE THEN NoMatch
    ELSE [found |-> TRUE, start |-> i, stop |-> j4, g1 |-> j2, g2 |-> j3 - 1]))))

\* STATUS_RE.search(body): the leftmost match
STATUS_RE_search(b) ==
    Bind({i \in 1..Len(b) : STATUS_RE_at(b, i).found}, LAMBDA hits :
    IF hits = {} THEN NoMatch
    ELSE STATUS_RE_at(b, CHOOSE i \in hits : \A q \in hits : i <= q))

status_marker(state) ==
    <<OPEN, SP, STATUSKW, SP>> \o StateWords(state) \o <<SP, CLOSE>>

get_comment_state(b) ==
    IF Len(b) = 0 THEN None
    ELSE Bind(STATUS_RE_search(b), LAMBDA m :
         IF ~m.found THEN None
         ELSE Bind(SubSeq(b, m.g1, m.g2), LAMBDA g :
              IF \E st \in COMMENT_STATES : g = StateWords(st)
              THEN CHOOSE st \in COMMENT_STATES : g = StateWords(st)
              ELSE None))

is_analyzed_state(b) ==
    Bind(get_comment_state(b), LAMBDA state :
         state = None \/ state = STATE_ANALYZED)

set_comment_state_body(b, new_state) ==
    Bind(STATUS_RE_search(b), LAMBDA m :
    Bind(IF m.found
         THEN SubSeq(b, 1, m.start - 1) \o status_marker(new_state)
                  \o SubSeq(b, m.stop + 1, Len(b))
         ELSE RStrip(b) \o <<NL, NL>> \o status_marker(new_state) \o <<NL>>,
         LAMBDA b1 :
    IF new_state = STATE_APPLIED /\ Contains(b1, <<APPLY_LOGS_LINE>>)
    THEN Bind(ReplaceFirst(b1, <<APPLY_LOGS_LINE, NL, NL>>, <<APPLIED_LINE, NL, NL>>),
              LAMBDA b2 :
              IF Contains(b2, <<APPLY_LOGS_LINE>>)
              THEN ReplaceFirst(b2, <<APPLY_LOGS_LINE>>, <<APPLIED_LINE>>)
              ELSE b2)
    ELSE b1))

(***************************************************************************)
(* JSON text of an issue.  A Python string (a patch) is a sequence of      *)
(* character tokens; json.dumps writes it as JSON text, json.loads reads   *)
(* JSON text back.                                                         *)
(***************************************************************************)
BS     == T("backslash")
DQ     == T("dquote")
LET_N  == T("n")
ESC    == T("0x1b")
LET_U  == T("u001b")
JPATCH == T("patch=")
JCLOSE == T("}")

JOPEN(fmt)     == [t |-> "{", s |-> "", n |-> fmt]
JFILE(f)       == [t |-> "file", s |-> f, n |-> 0]
JLINE(k, v)    == [t |-> "line", s |-> k, n |-> v]
JHASH(h)       == [t |-> "file_hash", s |-> "", n |-> h]
JDESC(d)       == [t |-> "description", s |-> d, n |-> 0]

\* the two serialisations in the source: json.dumps(metadata) in post_comment.py
\* and json.dumps(..., ensure_ascii=False, separators=(",", ":")) in refresh
FmtDefault == 0
FmtCompact == 1

Fail == [ok |-> FALSE, out |-> <<>>]
Ok(seq) == [ok |-> TRUE, out |-> seq]
Cons(tok, r) == IF r.ok THEN Ok(<<tok>> \o r.out) ELSE Fail
Cons2(a, b, r) == IF r.ok THEN Ok(<<a, b>> \o r.out) ELSE Fail

\* json.dumps of a str: escapes newline, backslash, double quote, control chars
RECURSIVE JsonEscape(_)
JsonEscape(cs) ==
    IF Len(cs) = 0 THEN <<>>
    ELSE LET c == Head(cs)
             e == IF c = NL THEN <<BS, LET_N>>
                  ELSE IF c = BS THEN <<BS, BS>>
                  ELSE IF c = DQ THEN <<BS, DQ>>
                  ELSE IF c = ESC THEN <<BS, LET_U>>
                  ELSE <<c>>
         IN e \o JsonEscape(Tail(cs))

\* json.loads of the inside of a JSON string (strict: a raw control character
\* or an unescaped quote is an error)
RECURSIVE JsonUnescape(_, _)
JsonUnescape(cs, i) ==
    IF i > Len(cs) THEN Ok(<<>>)
    ELSE IF cs[i] = BS
         THEN IF i + 1 > Len(cs) THEN Fail
              ELSE IF cs[i + 1] = LET_N THEN Cons(NL, JsonUnescape(cs, i + 2))
              ELSE IF cs[i + 1] = BS THEN Cons(BS, JsonUnescape(cs, i + 2))
              ELSE IF cs[i + 1] = DQ THEN Cons(DQ, JsonUnescape(cs, i + 2))
              ELSE IF cs[i + 1] = LET_U THEN Cons(ESC, JsonUnescape(cs, i + 2))
              ELSE Fail
    ELSE IF cs[i] \in {NL, DQ, ESC, JCLOSE, JPATCH} THEN Fail
    ELSE Cons(cs[i], JsonUnescape(cs, i + 1))

\* the replacement template of re.sub: Python expands backslash escapes in a
\* string replacement (\n, \\), leaves a non-letter escape alone and raises
\* re.error on an unknown letter escape
RECURSIVE TemplateExpand(_, _)
TemplateExpand(cs, i) ==
    IF i > Len(cs) THEN Ok(<<>>)
    ELSE IF cs[i] = BS
         THEN IF i + 1 > Len(cs) THEN Fail
              ELSE IF cs[i + 1] = LET_N THEN Cons(NL, TemplateExpand(cs, i + 2))
              ELSE IF cs[i + 1] = BS THEN Cons(BS, TemplateExpand(cs, i + 2))
              ELSE IF cs[i + 1] = LET_U THEN Fail
              ELSE Cons2(BS, cs[i + 1], TemplateExpand(cs, i + 2))
    ELSE Cons(cs[i], TemplateExpand(cs, i + 1))

LineNA   == [k |-> "na", v |-> 0]
NoneIssue ==
    [ok |-> FALSE, fmt |-> 0, file |-> "", line |-> LineNA, file_hash |-> 0,
     description |-> "", patch |-> <<>>]

Issue(fmt, file, line, hash, desc, patch) ==
    [ok |-> TRUE, fmt |-> fmt, file |-> file, line |-> line, file_hash |-> hash,
     description |-> desc, patch |-> patch]

json_dumps(meta, fmt) ==
    <<JOPEN(fmt), JFILE(meta.file), JLINE(meta.line.k, meta.line.v),
      JHASH(meta.file_hash), JDESC(meta.description), JPATCH>>
        \o JsonEscape(meta.patch) \o <<JCLOSE>>

json_loads(g) ==
    IF /\ Len(g) >= 7
       /\ g[1].t = "{" /\ g[2].t = "file" /\ g[3].t = "line"
       /\ g[4].t = "file_hash" /\ g[5].t = "description"
       /\ g[6] = JPATCH /\ g[Len(g)] = JCLOSE
    THEN Bind(JsonUnescape(SubSeq(g, 7, Len(g) - 1), 1), LAMBDA patch :
         IF patch.ok
         THEN Issue(g[1].n, g[2].s, [k |-> g[3].s, v |-> g[3].n], g[4].n, g[5].s,
                    patch.out)
         ELSE NoneIssue)
    ELSE NoneIssue

\* the issue as a value, whatever serialisation it was read from
SameIssue(a, b) == [a EXCEPT !.fmt = 0] = [b EXCEPT !.fmt = 0]

(***************************************************************************)
(* ISSUE_DATA codec (libs/comment_parsing.py, refresh_related_patches.py)  *)
(***************************************************************************)
\* r"<!--\s*ISSUE_DATA:\s*(.+?)\s*-->" with re.DOTALL, anchored at index i:
\* the lazy group ends before the first "-->" that follows its first token
ISSUE_DATA_RE_at(b, i) ==
    IF i > Len(b) \/ b[i] # OPEN THEN NoMatch
    ELSE Bind(SkipWs(b, i + 1), LAMBDA j1 :
    IF j1 > Len(b) \/ b[j1] # ISSUEKW THEN NoMatch
    ELSE Bind(SkipWs(b, j1 + 1), LAMBDA j2 :
    IF ~\E x \in (j2 + 1)..Len(b) : b[x] = CLOSE THEN NoMatch
    ELSE Bind(CHOOSE x \in (j2 + 1)..Len(b) :
                  b[x] = CLOSE /\ \A y \in (j2 + 1)..(x - 1) : b[y] # CLOSE,
              LAMBDA e :
         Bind(CHOOSE x \in j2..(e - 1) :
                  /\ \A y \in (x + 1)..(e - 1) : IsWs(b[y])
                  /\ (x = j2 \/ ~IsWs(b[x])),
              LAMBDA g2 :
         [found |-> TRUE, start |-> i, stop |-> e, g1 |-> j2, g2 |-> g2]))))

ISSUE_DATA_RE_search(b) ==
    Bind({i \in 1..Len(b) : ISSUE_DATA_RE_at(b, i).found}, LAMBDA hits :
    IF hits = {} THEN NoMatch
    ELSE ISSUE_DATA_RE_at(b, CHOOSE i \in hits : \A q \in hits : i <= q))

\* a decoder that reads the members it finds and keeps the patch text as it
\* stands when the payload is not valid JSON
extract_issue_data_Lenient(b) ==
    Bind(ISSUE_DATA_RE_search(b), LAMBDA m :
    IF ~m.found THEN NoneIssue
    ELSE Bind(SubSeq(b, m.g1, m.g2), LAMBDA g :
         IF json_loads(g).ok THEN json_loads(g)
         ELSE IF /\ Len(g) >= 6
                 /\ g[1].t = "{" /\ g[2].t = "file" /\ g[3].t = "line"
                 /\ g[4].t = "file_hash" /\ g[5].t = "description" /\ g[6] = JPATCH
              THEN Issue(g[1].n, g[2].s, [k |-> g[3].s, v |-> g[3].n], g[4].n, g[5].s,
                         SubSeq(g, 7, Len(g)))
              ELSE NoneIssue))

extract_issue_data(b) ==
    Bind(ISSUE_DATA_RE_search(b), LAMBDA m :
    IF ~m.found THEN NoneIssue ELSE json_loads(SubSeq(b, m.g1, m.g2)))

\* raises (ok = FALSE) when there is no block or the template is rejected
replace_issue_data(b, new_metadata) ==
    LET metadata_json == json_dumps(new_metadata, FmtCompact)
        replacement   == <<OPEN, SP, ISSUEKW, SP>> \o metadata_json \o <<SP, CLOSE>>
    IN Bind(ISSUE_DATA_RE_search(b), LAMBDA m :
       Bind(TemplateExpand(replacement, 1), LAMBDA expanded :
       IF ~m.found \/ ~expanded.ok THEN Fail
       ELSE Ok(SubSeq(b, 1, m.start - 1) \o expanded.out
                  \o SubSeq(b, m.stop + 1, Len(b)))))

\* number of ISSUE_DATA blocks opened in a body
IssueDataCount(b) ==
    Cardinality({i \in 1..Len(b) : ISSUE_DATA_RE_at(b, i).found})

(***************************************************************************)
(* Patch text (analyze-pr-code/validate_patch.py).  A patch is a sequence  *)
(* of tokens: a hunk header "@@ -os,oc +ns,nc @@", a prefixed line         *)
(* ("+", "-" or " " followed by a content), an unprefixed line, newlines.  *)
(***************************************************************************)
HDR(os, oc, ns, nc) == [t |-> "@@", s |-> "", n |-> ((os * 10 + oc) * 10 + ns) * 10 + nc]
HdrOldStart(h) == h.n \div 1000
HdrOldCount(h) == (h.n \div 100) % 10
HdrNewStart(h) == (h.n \div 10) % 10
HdrNewCount(h) == h.n % 10

ADD(c) == [t |-> "+", s |-> c, n |-> 0]
DEL(c) == [t |-> "-", s |-> c, n |-> 0]
CTX(c) == [t |-> "ctx", s |-> c, n |-> 0]
RAW(c) == [t |-> "raw", s |-> c, n |-> 0]

HasTok(cs, tok) == \E i \in 1..Len(cs) : cs[i] = tok

\* str.split('\n')
RECURSIVE SplitLines(_)
SplitLines(cs) ==
    IF ~HasTok(cs, NL) THEN <<cs>>
    ELSE LET i == CHOOSE p \in 1..Len(cs) :
                     cs[p] = NL /\ \A q \in 1..(p - 1) : cs[q] # NL
         IN <<SubSeq(cs, 1, i - 1)>> \o SplitLines(SubSeq(cs, i + 1, Len(cs)))

\* '\n'.join(lines)
RECURSIVE JoinLines(_)
JoinLines(ls) ==
    IF Len(ls) = 0 THEN <<>>
    ELSE IF Len(ls) = 1 THEN ls[1]
    ELSE ls[1] \o <<NL>> \o JoinLines(Tail(ls))

StartsWith(line, kind) == Len(line) > 0 /\ line[1].t = kind
StartsWithSpace(line)  == Len(line) > 0 /\ (line[1].t = "ctx" \/ line[1] = SP)
\* not line.strip()
IsBlank(line) ==
    \A k \in 1..Len(line) :
        IsWs(line[k]) \/ (k = 1 /\ line[k].t = "ctx" /\ line[k].s = "")

\* str.replace('\\n', '\n')
RECURSIVE ReplaceEscapedNewlines(_)
ReplaceEscapedNewlines(cs) ==
    IF Len(cs) = 0 THEN <<>>
    ELSE IF Len(cs) >= 2 /\ cs[1] = BS /\ cs[2] = LET_N
         THEN <<NL>> \o ReplaceEscapedNewlines(SubSeq(cs, 3, Len(cs)))
         ELSE <<Head(cs)>> \o ReplaceEscapedNewlines(Tail(cs))

\* the replacement made whenever an escape is present, real newlines or not
normalize_patch_newlines_Always(patch) ==
    IF Len(patch) = 0 THEN patch
    ELSE IF Contains(patch, <<BS, LET_N>>) THEN ReplaceEscapedNewlines(patch)
         ELSE patch

normalize_patch_newlines(patch) ==
    IF Len(patch) = 0 THEN patch
    ELSE IF Contains(patch, <<BS, LET_N>>) /\ ~HasTok(patch, NL)
         THEN ReplaceEscapedNewlines(patch)
         ELSE patch

\* validate_patch_format without the has_changes test of lines 50-68
validate_patch_format_HeaderOnly(patch0) ==
    IF Len(patch0) = 0 \/ IsBlank(patch0) THEN FALSE
    ELSE \E i \in 1..Len(normalize_patch_newlines(patch0)) :
            normalize_patch_newlines(patch0)[i].t = "@@"

validate_patch_format(patch0) ==
    IF Len(patch0) = 0 \/ IsBlank(patch0) THEN FALSE
    ELSE Bind(normalize_patch_newlines(patch0), LAMBDA patch :
         Bind(SplitLines(patch), LAMBDA lines :
            /\ \E i \in 1..Len(patch) : patch[i].t = "@@"
            /\ \E i \in 1..Len(lines) :
                  /\ Len(lines[i]) > 0
                  /\ ~StartsWith(lines[i], "@@")
                  /\ (StartsWith(lines[i], "+") \/ StartsWith(lines[i], "-"))))

\* the counted lines that follow the header at index i, up to the next header
HunkExtent(lines, i) ==
    CHOOSE j \in i..Len(lines) :
        /\ \A k \in (i + 1)..j : ~StartsWith(lines[k], "@@")
        /\ (j = Len(lines) \/ StartsWith(lines[j + 1], "@@"))

CountedOld(lines, i) ==
    Cardinality({k \in (i + 1)..HunkExtent(lines, i) :
        ~IsBlank(lines[k]) /\ (StartsWith(lines[k], "-") \/ StartsWithSpace(lines[k]))})

CountedNew(lines, i) ==
    Cardinality({k \in (i + 1)..HunkExtent(lines, i) :
        ~IsBlank(lines[k]) /\ (StartsWith(lines[k], "+") \/ StartsWithSpace(lines[k]))})

fix_hunk_header_counts(patch) ==
    IF Len(patch) = 0 \/ IsBlank(patch) THEN patch
    ELSE Bind(SplitLines(patch), LAMBDA lines :
         JoinLines([i \in 1..Len(lines) |->
                       IF StartsWith(lines[i], "@@")
                       THEN <<HDR(HdrOldStart(lines[i][1]), CountedOld(lines, i),
                                  HdrNewStart(lines[i][1]), CountedNew(lines, i))>>
                       ELSE lines[i]]))

fix_patch_format(patch0) ==
    IF Len(patch0) = 0 \/ IsBlank(patch0) THEN patch0
    ELSE Bind(SplitLines(normalize_patch_newlines(patch0)), LAMBDA lines :
         fix_hunk_header_counts(JoinLines(
             [i \in 1..Len(lines) |->
                 IF StartsWith(lines[i], "@@") THEN lines[i]
                 ELSE IF ~\E k \in 1..(i - 1) : StartsWith(lines[k], "@@") THEN lines[i]
                 ELSE IF IsBlank(lines[i]) THEN lines[i]
                 ELSE IF StartsWith(lines[i], "+") \/ StartsWith(lines[i], "-")
                         \/ StartsWithSpace(lines[i]) THEN lines[i]
                 ELSE IF lines[i][1].t = "raw"
                      THEN <<CTX(lines[i][1].s)>> \o Tail(lines[i])
                      ELSE <<SP>> \o lines[i]])))

(***************************************************************************)
(* The diff-apply mechanism: git apply --ignore-whitespace --whitespace=fix*)
(* as invoked by PatchApplier.apply_patch and git_apply_check.  A file is  *)
(* a sequence of line contents.                                            *)
(***************************************************************************)
NoHunk == [ok |-> FALSE, pre |-> <<>>, post |-> <<>>, next |-> 0, trailing |-> 0]

\* read the lines of one hunk until the counts of its header are used up;
\* a line that is not a prefixed line, or the end of the text, is a corrupt patch
RECURSIVE ConsumeHunk(_, _, _, _, _, _, _, _)
ConsumeHunk(lines, j, complete, oc, nc, pre, post, trailing) ==
    IF oc = 0 /\ nc = 0
    THEN [ok |-> TRUE, pre |-> pre, post |-> post, next |-> j, trailing |-> trailing]
    ELSE IF j > Len(lines) \/ (j = Len(lines) /\ ~complete) THEN NoHunk
    ELSE LET line == lines[j] IN
         IF Len(line) # 1 THEN NoHunk
         ELSE IF line[1].t = "ctx" /\ oc > 0 /\ nc > 0
              THEN ConsumeHunk(lines, j + 1, complete, oc - 1, nc - 1,
                               Append(pre, line[1].s), Append(post, line[1].s),
                               trailing + 1)
         ELSE IF line[1].t = "-" /\ oc > 0
              THEN ConsumeHunk(lines, j + 1, complete, oc - 1, nc,
                               Append(pre, line[1].s), post, 0)
         ELSE IF line[1].t = "+" /\ nc > 0
              THEN ConsumeHunk(lines, j + 1, complete, oc, nc - 1,
                               pre, Append(post, line[1].s), 0)
         ELSE NoHunk

\* positions of file where the preimage of a hunk matches
MatchPositions(content, os, pre, trailing) ==
    {p \in 1..(Len(content) - Len(pre) + 1) :
        /\ \A k \in 1..Len(pre) : content[p + k - 1] = pre[k]
        /\ (os <= 1 => p = 1)
        /\ (trailing = 0 => p + Len(pre) - 1 = Len(content))}

Dist(a, b) == IF a >= b THEN a - b ELSE b - a

\* the position git picks: the nearest to the header position, forwards first
PickPosition(ps, os) ==
    CHOOSE p \in ps : \A q \in ps :
        \/ Dist(p, os) < Dist(q, os)
        \/ (Dist(p, os) = Dist(q, os) /\ p >= q)

\* apply the hunks whose headers start at line index i and after
RECURSIVE ApplyHunks(_, _, _, _, _)
ApplyHunks(content, lines, i, complete, applied) ==
    IF i > Len(lines) \/ ~StartsWith(lines[i], "@@")
    THEN IF applied > 0 THEN Ok(content) ELSE Fail
    ELSE Bind(lines[i][1], LAMBDA h :
         Bind(ConsumeHunk(lines, i + 1, complete, HdrOldCount(h), HdrNewCount(h),
                          <<>>, <<>>, 0), LAMBDA hk :
         IF ~hk.ok THEN Fail
         \* a hunk of context lines only is a corrupt patch
         ELSE IF hk.next - (i + 1) = Len(hk.pre) /\ Len(hk.pre) = Len(hk.post) THEN Fail
         ELSE Bind(MatchPositions(content, HdrOldStart(h), hk.pre, hk.trailing),
                   LAMBDA ps :
              IF ps = {} THEN Fail
              ELSE Bind(PickPosition(ps, HdrNewStart(h)), LAMBDA p :
                   ApplyHunks(SubSeq(content, 1, p - 1) \o hk.post
                                 \o SubSeq(content, p + Len(hk.pre), Len(content)),
                              lines, hk.next, complete, applied + 1)))))

\* git apply of a patch text to a file content: the new content, or failure
\* (corrupt patch, or context that matches nowhere); all or nothing
GitApply(content, full_patch) ==
    Bind(Len(full_patch) > 0 /\ full_patch[Len(full_patch)] = NL, LAMBDA complete :
    Bind(SplitLines(full_patch), LAMBDA split :
         ApplyHunks(content,
                    IF complete THEN SubSeq(split, 1, Len(split) - 1) ELSE split,
                    1, complete, 0)))

\* hashlib.sha256 of a content: an injective code of the lines
LineCode(c) ==
    CASE c = "h" -> 1 [] c = "a" -> 2 [] c = "b" -> 3 [] c = "t" -> 4
      [] c = "g" -> 5 [] c = "x" -> 6 [] OTHER -> 7

RECURSIVE sha256(_)
sha256(content) ==
    IF Len(content) = 0 THEN 0
    ELSE LineCode(content[Len(content)]) + 8 * sha256(SubSeq(content, 1, Len(content) - 1))

(***************************************************************************)
(* Comment creation (analyze-pr-code/post_comment.py)                      *)
(***************************************************************************)
format_review_comment(issue, file_path, file_hash) ==
    <<BOT, TXT, NL, NL, T(issue.description), NL, NL, RULE, NL,
      APPLY_LOGS_LINE, NL, NL, OPEN, SP, ISSUEKW, SP>>
        \o json_dumps(Issue(FmtDefault, file_path, issue.line, file_hash,
                            issue.description, issue.patch), FmtDefault)
        \o <<SP, CLOSE>>

(***************************************************************************)
(* Apply (apply-suggested-logs/main.py)                                    *)
(***************************************************************************)
\* re.search(r'<!-- ISSUE_DATA: (.+?) -->', body, re.DOTALL) and json.loads
parse_issue_from_comment(b) ==
    IF \E i \in 1..Len(b) :
          /\ OccursAt(b, <<OPEN, SP, ISSUEKW, SP>>, i)
          /\ \E e \in (i + 5)..(Len(b) - 1) : b[e] = SP /\ b[e + 1] = CLOSE
    THEN Bind(CHOOSE x \in 1..Len(b) :
                     /\ OccursAt(b, <<OPEN, SP, ISSUEKW, SP>>, x)
                     /\ \E e \in (x + 5)..(Len(b) - 1) : b[e] = SP /\ b[e + 1] = CLOSE
                     /\ \A y \in 1..(x - 1) :
                          ~(/\ OccursAt(b, <<OPEN, SP, ISSUEKW, SP>>, y)
                            /\ \E e \in (y + 5)..(Len(b) - 1) : b[e] = SP /\ b[e + 1] = CLOSE),
              LAMBDA i :
         Bind(CHOOSE x \in (i + 5)..(Len(b) - 1) :
                     /\ b[x] = SP /\ b[x + 1] = CLOSE
                     /\ \A y \in (i + 5)..(x - 1) : ~(b[y] = SP /\ b[y + 1] = CLOSE),
              LAMBDA e :
         json_loads(SubSeq(b, i + 4, e - 1))))
    ELSE NoneIssue

\* PatchApplier._validate_patch_format
PatchApplier_validate_patch_format(patch_content) ==
    Bind(SplitLines(patch_content), LAMBDA lines :
    /\ \E i \in 1..Len(lines) : StartsWith(lines[i], "@@")
    /\ \A i \in 1..(Len(lines) - 1) :
          ~(/\ StartsWith(lines[i], "-") /\ StartsWith(lines[i + 1], "+")
            /\ lines[i][1].s = lines[i + 1][1].s
            /\ Tail(lines[i]) = Tail(lines[i + 1])))

\* how far apply_patch went: the return of line 141, the return of line 174, or
\* the git apply of lines 202-207
AT_NOT_FOUND == "not_found"
AT_FORMAT    == "format_error"
AT_GIT       == "git_apply"

Stopped(stage) == [ok |-> FALSE, out |-> <<>>, stage |-> stage]

\* apply_patch with the format validation moved before the existence test
apply_patch_ValidateFirst(fs, file_path, patch_content, file_hash) ==
    IF ~PatchApplier_validate_patch_format(patch_content) THEN Stopped(AT_FORMAT)
    ELSE IF file_path \notin DOMAIN fs THEN Stopped(AT_NOT_FOUND)
    ELSE Bind(GitApply(fs[file_path], patch_content), LAMBDA res :
              [ok |-> res.ok, out |-> res.out, stage |-> AT_GIT])

\* PatchApplier.apply_patch: the new content of the file, or failure, and the
\* stage it reached
apply_patch(fs, file_path, patch_content, file_hash) ==
    IF file_path \notin DOMAIN fs THEN Stopped(AT_NOT_FOUND)
    ELSE IF ~PatchApplier_validate_patch_format(patch_content) THEN Stopped(AT_FORMAT)
    ELSE Bind(GitApply(fs[file_path], patch_content), LAMBDA res :
              [ok |-> res.ok, out |-> res.out, stage |-> AT_GIT])

\* main(): exit code and the files after the run
apply_main_result(fs, comment_body) ==
    Bind(parse_issue_from_comment(comment_body), LAMBDA issue :
    IF ~issue.ok THEN [rc |-> 1, files |-> fs, stage |-> "no_issue"]
    ELSE Bind(fix_patch_format(normalize_patch_newlines(issue.patch)),
              LAMBDA patch_content :
         Bind(apply_patch(fs, issue.file, patch_content, issue.file_hash), LAMBDA res :
         IF res.ok
         THEN [rc |-> 0, files |-> [fs EXCEPT ![issue.file] = res.out],
               stage |-> res.stage]
         ELSE [rc |-> 1, files |-> fs, stage |-> res.stage])))

(***************************************************************************)
(* Gate and set-state commands (shared/comment_state.py)                   *)
(***************************************************************************)
\* _set_github_output: the lines appended to the file GITHUB_OUTPUT names; nothing
\* is written when the variable is not set
GithubOutput(env, lines) == IF env = "no_github_output" THEN <<>> ELSE lines

\* the gate that returns on a failed fetch without writing an output
cmd_check_result_SilentOnFetchFail(env, parent_body) ==
    IF env = "no_token"
    THEN [should_apply |-> "false", rc |-> 1,
          outputs |-> GithubOutput(env, <<[key |-> "should_apply", value |-> "false"]>>)]
    ELSE IF env = "fetch_fail" \/ env = "trigger_fetch_fail"
    THEN [should_apply |-> "", outputs |-> <<>>, rc |-> 1]
    ELSE IF get_comment_state(parent_body) \in {STATE_APPLIED, STATE_GC_INTEGRATED}
    THEN [should_apply |-> IF env = "no_github_output" THEN "" ELSE "false", rc |-> 0,
          outputs |-> GithubOutput(env, <<[key |-> "should_apply", value |-> "false"]>>)]
    ELSE IF env = "output_file_error"
    THEN [should_apply |-> "", rc |-> 1, outputs |-> <<>>]
    ELSE [should_apply |-> IF env = "no_github_output" THEN "" ELSE "true", rc |-> 0,
          outputs |-> GithubOutput(env, <<[key |-> "should_apply", value |-> "true"],
                                          [key |-> "comment_id", value |-> "id"],
                                          [key |-> "parent_comment_id", value |-> "id"]>>)]

\* _cmd_check: the outputs written, the should_apply value the workflow reads
\* ("" when none was written) and the exit code.  env names what the run
\* meets: no token, a failed fetch of the parent or of the trigger comment,
\* no GITHUB_OUTPUT variable, an output file that cannot be opened (the
\* exception of line 135 is not caught: the interpreter exits with 1).
cmd_check_result(env, parent_body) ==
    IF env = "no_token"
    THEN [should_apply |-> "false", rc |-> 1,
          outputs |-> GithubOutput(env, <<[key |-> "should_apply", value |-> "false"]>>)]
    ELSE IF env = "fetch_fail" \/ env = "trigger_fetch_fail"
    THEN [should_apply |-> "false", rc |-> 1,
          outputs |-> GithubOutput(env, <<[key |-> "should_apply", value |-> "false"]>>)]
    ELSE IF get_comment_state(parent_body) \in {STATE_APPLIED, STATE_GC_INTEGRATED}
    THEN [should_apply |-> IF env = "no_github_output" THEN "" ELSE "false", rc |-> 0,
          outputs |-> GithubOutput(env, <<[key |-> "should_apply", value |-> "false"]>>)]
    ELSE IF env = "output_file_error"
    THEN [should_apply |-> "", rc |-> 1, outputs |-> <<>>]
    ELSE [should_apply |-> IF env = "no_github_output" THEN "" ELSE "true", rc |-> 0,
          outputs |-> GithubOutput(env, <<[key |-> "should_apply", value |-> "true"],
                                          [key |-> "comment_id", value |-> "id"],
                                          [key |-> "parent_comment_id", value |-> "id"]>>)]

\* _cmd_set: exit code, whether a PATCH request was sent (accepted or not), and
\* the stored body
cmd_set_result(env, body, state) ==
    IF env = "no_token" \/ env = "fetch_fail"
    THEN [rc |-> 1, patched |-> FALSE, body |-> body]
    ELSE IF get_comment_state(body) = state
         THEN [rc |-> 0, patched |-> FALSE, body |-> body]
         ELSE IF env = "patch_fail"
              THEN [rc |-> 1, patched |-> TRUE, body |-> body]
              ELSE [rc |-> 0, patched |-> TRUE,
                    body |-> set_comment_state_body(body, state)]

(***************************************************************************)
(* Refresh (apply-suggested-logs/refresh_related_patches.py)               *)
(***************************************************************************)
is_bot_issue_comment(comment) ==
    IF ~HasTok(comment.body, ISSUEKW) THEN FALSE
    ELSE IF HasTok(comment.body, APPLY_LOGS_LINE) THEN TRUE
    ELSE IF SkipWs(comment.body, 1) <= Len(comment.body)
            /\ comment.body[SkipWs(comment.body, 1)] = BOT THEN TRUE
    ELSE comment.user_login = "github-actions[bot]"

\* parse_int_line: an int, a numeric string, "N/A" or null
parse_int_line(value) ==
    IF value.k = "int" \/ value.k = "str" THEN [ok |-> TRUE, v |-> value.v]
    ELSE [ok |-> FALSE, v |-> 0]

\* what cursor.send_message returned, as extract_patch_from_cursor_result reads it
extract_patch_from_cursor_result(result) ==
    IF result.kind = "dict"
    THEN IF Len(result.patch) > 0 /\ ~IsBlank(result.patch) THEN Ok(result.patch) ELSE Fail
    ELSE IF result.kind = "str"
         THEN IF Len(result.patch) > 0 /\ ~IsBlank(result.patch) THEN Ok(result.patch) ELSE Fail
         ELSE Fail

normalize_and_fix_patch(patch) == fix_patch_format(normalize_patch_newlines(patch))

\* TRUE when validate_patch_or_raise returns, FALSE when it raises
validate_patch_or_raise(patch) ==
    /\ Len(patch) > 0 /\ ~IsBlank(patch)
    /\ validate_patch_format(patch)
    /\ \E i \in 1..Len(patch) : patch[i].t = "@@"

\* the file in the work tree after a run of git apply that writes the result
TreeAfterCheck_Applied(content, patch) ==
    LET full_patch == IF Len(patch) > 0 /\ patch[Len(patch)] = NL
                      THEN patch ELSE patch \o <<NL>>
    IN IF GitApply(content, full_patch).ok THEN GitApply(content, full_patch).out
       ELSE content

\* the file in the work tree after git apply --check: the check writes nothing
TreeAfterCheck(content, patch) == content

\* a dry run that accepts every patch
git_apply_check_Always(content, patch) == TRUE

\* git apply --check: whether the patch applies
git_apply_check(content, patch) ==
    LET full_patch == IF Len(patch) > 0 /\ patch[Len(patch)] = NL
                      THEN patch ELSE patch \o <<NL>>
    IN GitApply(content, full_patch).ok

\* the downstream rule with the last comparison relaxed to keep same-line comments
IsCandidate_SameLine(c, comment, meta, line_int, applied_file, applied_line, applied_comment_id) ==
    /\ is_bot_issue_comment(comment)
    /\ meta.ok
    /\ meta.file = applied_file
    /\ line_int.ok
    /\ ~(applied_comment_id # 0 /\ c = applied_comment_id)
    /\ ~(line_int.v < applied_line)

\* the downstream rule of lines 472-489 for one listed comment, given its
\* decoded metadata and line
IsCandidate(c, comment, meta, line_int, applied_file, applied_line, applied_comment_id) ==
    /\ is_bot_issue_comment(comment)
    /\ meta.ok
    /\ meta.file = applied_file
    /\ line_int.ok
    /\ ~(applied_comment_id # 0 /\ c = applied_comment_id)
    /\ ~(line_int.v <= applied_line)

\* the list in listing order, not sorted by line
RECURSIVE SortByLine_ListingOrder(_)
SortByLine_ListingOrder(cands) ==
    IF cands = {} THEN <<>>
    ELSE LET m == CHOOSE x \in cands : \A y \in cands : x.c <= y.c
         IN <<m>> \o SortByLine_ListingOrder(cands \ {m})

\* candidates.sort(key=line): a stable sort of the listing order
RECURSIVE SortByLine(_)
SortByLine(cands) ==
    IF cands = {} THEN <<>>
    ELSE LET m == CHOOSE x \in cands : \A y \in cands :
                     x.line_int < y.line_int \/ (x.line_int = y.line_int /\ x.c <= y.c)
         IN <<m>> \o SortByLine(cands \ {m})

\* the exit code if a partial refresh failed the run
RefreshExit_FailOnPartial(failed) == IF failed = 0 THEN 0 ELSE 1

\* line 580
RefreshExit(failed) == IF failed = 0 THEN 0 ELSE 0

\* the pass that keeps the file_hash the comment already stored
Outcome_StaleHash(body, meta, content, current_hash, oracle) ==
    LET stop(status, called, tree) ==
            [status |-> status, body |-> body, called |-> called, tree |-> tree]
    IN IF oracle.kind = "raise" THEN stop("failed", FALSE, content)
    ELSE Bind(extract_patch_from_cursor_result(oracle), LAMBDA got :
    IF ~got.ok THEN stop("failed", FALSE, content)
    ELSE Bind(normalize_and_fix_patch(got.out), LAMBDA patch :
    IF ~validate_patch_or_raise(patch) THEN stop("failed", FALSE, content)
    ELSE Bind(TreeAfterCheck(content, patch), LAMBDA tree :
    IF ~git_apply_check(content, patch) THEN stop("failed", FALSE, tree)
    ELSE Bind(replace_issue_data(body, [meta EXCEPT !.patch = patch]),
              LAMBDA new_body :
    IF ~new_body.ok THEN stop("failed", FALSE, tree)
    ELSE IF new_body.out = body THEN stop("skipped", FALSE, tree)
    ELSE IF ~oracle.api_ok THEN stop("failed", TRUE, tree)
    ELSE [status |-> "updated", body |-> new_body.out, called |-> TRUE,
          tree |-> tree]))))

\* the outcome of one pass of the loop of lines 523-573 for the listed body:
\* its count, the stored body, whether update_review_comment_body sent its
\* request, and the file in the work tree after the pass
Outcome(body, meta, content, current_hash, oracle) ==
    LET stop(status, called, tree) ==
            [status |-> status, body |-> body, called |-> called, tree |-> tree]
    IN IF oracle.kind = "raise" THEN stop("failed", FALSE, content)
    ELSE Bind(extract_patch_from_cursor_result(oracle), LAMBDA got :
    IF ~got.ok THEN stop("failed", FALSE, content)
    ELSE Bind(normalize_and_fix_patch(got.out), LAMBDA patch :
    IF ~validate_patch_or_raise(patch) THEN stop("failed", FALSE, content)
    ELSE Bind(TreeAfterCheck(content, patch), LAMBDA tree :
    IF ~git_apply_check(content, patch) THEN stop("failed", FALSE, tree)
    ELSE Bind(replace_issue_data(body, [meta EXCEPT !.patch = patch,
                                                    !.file_hash = current_hash]),
              LAMBDA new_body :
    IF ~new_body.ok THEN stop("failed", FALSE, tree)
    ELSE IF new_body.out = body THEN stop("skipped", FALSE, tree)
    ELSE IF ~oracle.api_ok THEN stop("failed", TRUE, tree)
    ELSE [status |-> "updated", body |-> new_body.out, called |-> TRUE,
          tree |-> tree]))))

EmptyReport ==
    [reached |-> FALSE, candidates |-> <<>>, attempted |-> <<>>,
     updated |-> {}, skipped |-> {}, failed |-> {}]

\* the pass that sends its comment update a second time
PassEvents_Retry(c, out) ==
    <<[op |-> "send_message", c |-> c]>>
        \o (IF out.called THEN <<[op |-> "update", c |-> c], [op |-> "update", c |-> c]>>
            ELSE <<>>)

\* the requests one pass of the loop sends for comment c, in order: the
\* oracle call (line 537), then the comment update (line 566) if it is reached
PassEvents(c, out) ==
    <<[op |-> "send_message", c |-> c]>>
        \o (IF out.called THEN <<[op |-> "update", c |-> c]>> ELSE <<>>)

\* the counts of lines 519-521 that leave a refused update uncounted
Tally_RefusedUncounted(report, c, out) ==
    [report EXCEPT
        !.attempted = Append(@, c),
        !.updated = IF out.status = "updated" THEN @ \cup {c} ELSE @,
        !.skipped = IF out.status = "skipped" THEN @ \cup {c} ELSE @,
        !.failed  = IF out.status = "failed" /\ ~out.called THEN @ \cup {c} ELSE @]

\* the counts updated, skipped, failed of lines 519-521 after a pass for c
Tally(report, c, out) ==
    [report EXCEPT
        !.attempted = Append(@, c),
        !.updated = IF out.status = "updated" THEN @ \cup {c} ELSE @,
        !.skipped = IF out.status = "skipped" THEN @ \cup {c} ELSE @,
        !.failed  = IF out.status = "failed" THEN @ \cup {c} ELSE @]

\* the loop over the candidates from index k, over the answers the oracle
\* may give: every (stored comments, report, requests sent, file in the work
\* tree) it can end with.  current_hash is the hash computed before the loop;
\* content is the file as git finds it at pass k.
RECURSIVE RefreshLoop(_, _, _, _, _, _, _, _)
RefreshLoop(cs, cands, k, content, current_hash, answers, report, events) ==
    IF k > Len(cands)
    THEN {[comments |-> cs, report |-> report, events |-> events, tree |-> content]}
    ELSE UNION {RefreshLoop([cs EXCEPT ![cands[k].c].body = out.body], cands, k + 1,
                            out.tree, current_hash, answers,
                            Tally(report, cands[k].c, out),
                            events \o PassEvents(cands[k].c, out)) :
                   out \in {Outcome(cands[k].body, cands[k].meta, content,
                                    current_hash, o) : o \in answers}}

\* refresh_related_patches.py:412
DefaultMaxComments == 50

\* the sorted candidates without the cap of lines 496-498
Candidates_Uncapped(cs, applied_file, applied_line, applied_comment_id, max_comments) ==
    LET listed == {[c |-> c, body |-> cs[c].body,
                    meta |-> extract_issue_data(cs[c].body)] : c \in DOMAIN cs}
        kept   == {x \in listed :
                      IsCandidate(x.c, cs[x.c], x.meta, parse_int_line(x.meta.line),
                                  applied_file, applied_line, applied_comment_id)}
    IN SortByLine({[c |-> x.c, body |-> x.body, meta |-> x.meta,
                    line_int |-> parse_int_line(x.meta.line).v] : x \in kept})

\* the candidates of a run: (comment id, listed body, metadata, line), sorted
\* and capped
Candidates(cs, applied_file, applied_line, applied_comment_id, max_comments) ==
    LET listed == {[c |-> c, body |-> cs[c].body,
                    meta |-> extract_issue_data(cs[c].body)] : c \in DOMAIN cs}
        kept   == {x \in listed :
                      IsCandidate(x.c, cs[x.c], x.meta, parse_int_line(x.meta.line),
                                  applied_file, applied_line, applied_comment_id)}
    IN Bind(SortByLine({[c |-> x.c, body |-> x.body, meta |-> x.meta,
                         line_int |-> parse_int_line(x.meta.line).v] : x \in kept}),
            LAMBDA sorted :
            IF Len(sorted) > max_comments THEN SubSeq(sorted, 1, max_comments)
            ELSE sorted)

CandidateIds(cands) == [k \in 1..Len(cands) |-> cands[k].c]

\* main(): every (exit code, stored comments, report, requests sent, work
\* tree) the run can end with
refresh_main_results(cs, fs, env, applied_body, applied_comment_id, max_comments, answers) ==
    LET stop(rc) == {[rc |-> rc, comments |-> cs, report |-> EmptyReport,
                      events |-> <<>>, files |-> fs]}
    IN Bind(extract_issue_data(applied_body), LAMBDA applied_issue :
       IF env = "no_token" THEN stop(1)
       ELSE IF Len(applied_body) = 0 THEN stop(1)
       ELSE IF ~applied_issue.ok THEN stop(1)
       ELSE IF applied_issue.file = "" THEN stop(1)
       ELSE IF ~parse_int_line(applied_issue.line).ok THEN stop(1)
       ELSE Bind(Candidates(cs, applied_issue.file,
                            parse_int_line(applied_issue.line).v,
                            applied_comment_id, max_comments), LAMBDA cands :
            IF \A c \in DOMAIN cs :
                  ~IsCandidate(c, cs[c], extract_issue_data(cs[c].body),
                               parse_int_line(extract_issue_data(cs[c].body).line),
                               applied_issue.file,
                               parse_int_line(applied_issue.line).v,
                               applied_comment_id)
            THEN stop(0)
            ELSE IF applied_issue.file \notin DOMAIN fs THEN stop(1)
            ELSE IF env = "no_cursor_key" THEN stop(1)
            ELSE Bind(fs[applied_issue.file], LAMBDA content :
                 {[rc |-> RefreshExit(Cardinality(r.report.failed)),
                   comments |-> r.comments, report |-> r.report,
                   events |-> r.events,
                   files |-> [fs EXCEPT ![applied_issue.file] = r.tree]] :
                     r \in RefreshLoop(cs, cands, 1, content, sha256(content), answers,
                                       [EmptyReport EXCEPT
                                           !.reached = TRUE,
                                           !.candidates = CandidateIds(cands)],
                                       <<>>)})))

(***************************************************************************)
(* The pull request: stored review comments, the working tree, and the     *)
(* workflow runs started by /apply-logs replies.                           *)
(***************************************************************************)
VARIABLES
    comments,   \* comment id -> [body, user_login]: the comment store
    files,      \* path -> content: the tracked files of the working tree
    runs,       \* run id -> the position and the step outputs of a workflow run
    triggers,   \* number of workflow triggers so far (replies, set commands)
    applies,    \* comment id -> number of times its patch changed a file
    report,     \* the report of the last refresh run
    cin,        \* input of the codec functions (codec specification)
    cout        \* their results (codec specification)

vars == <<comments, files, runs, triggers, applies, report, cin, cout>>

\* bounds
MaxTriggers == 2

CommentIds == 1..3
RunIds     == 1..MaxTriggers

File_F == <<"h", "a", "b", "a", "b", "t">>
File_G == <<"h", "g", "t">>
InitialFiles == [f \in {"F", "G"} |-> IF f = "F" THEN File_F ELSE File_G]

\* the patch the analysis produced for an issue, against the analysed files
PatchAt(file, line) ==
    IF file = "G"
    THEN <<HDR(2, 2, 2, 3), NL, CTX("g"), NL, ADD("x"), NL, CTX("t"), NL>>
    ELSE IF line.k \in {"int", "str"} /\ line.v >= 4
         THEN <<HDR(4, 2, 4, 3), NL, CTX("a"), NL, ADD("x"), NL, CTX("b"), NL>>
         ELSE <<HDR(2, 2, 2, 3), NL, CTX("a"), NL, ADD("x"), NL, CTX("b"), NL>>

IntLine(v) == [k |-> "int", v |-> v]
StrLine(v) == [k |-> "str", v |-> v]

AnalysisIssue(file, line) ==
    [line |-> line, description |-> "add logging", patch |-> PatchAt(file, line)]

BotComment(file, line) ==
    [body |-> format_review_comment(AnalysisIssue(file, line), file,
                                    sha256(InitialFiles[file])),
     user_login |-> "github-actions[bot]"]

\* what the oracle may answer for one candidate, and whether the comment
\* update that follows is accepted by the API
OracleAnswers ==
    {[kind |-> "raise", patch |-> <<>>, api_ok |-> TRUE],
     [kind |-> "dict", patch |-> <<>>, api_ok |-> TRUE],
     [kind |-> "dict", api_ok |-> TRUE,
      patch |-> <<HDR(4, 9, 4, 9), BS, LET_N, RAW("a"), BS, LET_N, ADD("x"),
                  BS, LET_N, RAW("b")>>],
     [kind |-> "dict", api_ok |-> FALSE,
      patch |-> <<HDR(4, 2, 4, 3), NL, CTX("a"), NL, ADD("x"), NL, CTX("b"), NL>>],
     [kind |-> "str", api_ok |-> TRUE,
      patch |-> <<HDR(4, 2, 4, 2), NL, CTX("a"), NL, CTX("b"), NL>>],
     [kind |-> "dict", api_ok |-> TRUE,
      patch |-> <<HDR(4, 2, 4, 3), NL, CTX("g"), NL, ADD("x"), NL, CTX("b"), NL>>]}

IdleRun ==
    [pc |-> "idle", parent |-> 0, fetched |-> FALSE, should_apply |-> "unset",
     checked_body |-> <<>>, rc |-> 0]

NoCodec == [op |-> "none"]

\* the comments the analysis posted: comment 2 on the line of comment 1, or
\* downstream of it with its line as a numeric string, or without a line
InitComments ==
    \E p \in {<<IntLine(2), "F">>, <<StrLine(4), "F">>, <<LineNA, "G">>} :
        comments = [c \in CommentIds |->
                       IF c = 1 THEN BotComment("F", IntLine(2))
                       ELSE IF c = 2 THEN BotComment("F", p[1])
                       ELSE BotComment(p[2], IntLine(5))]

Init ==
    /\ InitComments
    /\ files = InitialFiles
    /\ runs = [r \in RunIds |-> IdleRun]
    /\ triggers = 0
    /\ applies = [c \in CommentIds |-> 0]
    /\ report = EmptyReport
    /\ cin = NoCodec
    /\ cout = NoCodec

\* the order of the steps of one apply run, as the workflow file invokes the
\* scripts: gate check, apply, set state applied, refresh
StepAfter(pc, rc, should_apply) ==
    IF pc = "idle" THEN (IF should_apply = "true" THEN "apply" ELSE "done")
    ELSE IF pc = "apply" THEN (IF rc = 0 THEN "set" ELSE "done")
    ELSE IF pc = "set" THEN (IF rc = 0 THEN "refresh" ELSE "done")
    ELSE "done"

\* a finished run keeps its outputs; the body file of its runner is gone
Finish(run) == IF run.pc = "done" THEN [run EXCEPT !.checked_body = <<>>] ELSE run

\* a reply /apply-logs to comment c starts run r, whose first step is the gate
cmd_check(r, c) ==
    /\ runs[r].pc = "idle"
    /\ \A q \in 1..(r - 1) : runs[q].pc # "idle"
    /\ triggers < MaxTriggers
    /\ triggers' = triggers + 1
    /\ \E env \in {"ok", "no_token", "fetch_fail"} :
          \E res \in {cmd_check_result(env, comments[c].body)} :
          runs' = [runs EXCEPT ![r] = Finish(
                     [@ EXCEPT !.pc = StepAfter("idle", res.rc, res.should_apply),
                               !.parent = c,
                               !.fetched = (env = "ok"),
                               !.should_apply = res.should_apply,
                               !.checked_body = IF env = "ok" THEN comments[c].body
                                                ELSE <<>>,
                               !.rc = res.rc])]
    /\ UNCHANGED <<comments, files, applies, report, cin, cout>>

\* the apply step: main.py on the parent body the gate step passed on
apply_main(r) ==
    /\ runs[r].pc = "apply"
    /\ \E res \in {apply_main_result(files, runs[r].checked_body)} :
          /\ files' = res.files
          /\ applies' = [applies EXCEPT ![runs[r].parent] =
                            IF res.files # files THEN @ + 1 ELSE @]
          /\ runs' = [runs EXCEPT ![r] = Finish(
                        [@ EXCEPT !.pc = StepAfter("apply", res.rc, @.should_apply),
                                  !.rc = res.rc])]
    /\ UNCHANGED <<comments, triggers, report, cin, cout>>

\* the set step of an apply run: comment_state.py set --state applied
cmd_set_applied(r) ==
    /\ runs[r].pc = "set"
    /\ \E env \in {"ok", "fetch_fail", "patch_fail"} :
          \E res \in {cmd_set_result(env, comments[runs[r].parent].body, STATE_APPLIED)} :
          /\ comments' = [comments EXCEPT ![runs[r].parent].body = res.body]
          /\ runs' = [runs EXCEPT ![r] = Finish(
                        [@ EXCEPT !.pc = StepAfter("set", res.rc, @.should_apply),
                                  !.rc = res.rc])]
    /\ UNCHANGED <<files, triggers, applies, report, cin, cout>>

\* a set command issued outside the apply runs (the resource-integration
\* workflow sets gc-integrated; the command accepts any state)
cmd_set(c, state) ==
    /\ triggers < MaxTriggers
    /\ triggers' = triggers + 1
    /\ \E env \in {"ok", "patch_fail"} :
          comments' = [comments EXCEPT ![c].body =
                          cmd_set_result(env, comments[c].body, state).body]
    /\ UNCHANGED <<files, runs, applies, report, cin, cout>>

\* the refresh step: refresh_related_patches.py for the applied parent
refresh_main(r) ==
    /\ runs[r].pc = "refresh"
    /\ \E env \in {"ok", "no_cursor_key"}, with_id \in BOOLEAN :
          \E res \in refresh_main_results(comments, files, env, runs[r].checked_body,
                                          IF with_id THEN runs[r].parent ELSE 0,
                                          DefaultMaxComments, OracleAnswers) :
             /\ comments' = res.comments
             /\ report' = res.report
             /\ files' = res.files
             /\ runs' = [runs EXCEPT ![r] = Finish(
                          [@ EXCEPT !.pc = StepAfter("refresh", res.rc, @.should_apply),
                                    !.rc = res.rc])]
    /\ UNCHANGED <<triggers, applies, cin, cout>>

Next ==
    \/ \E r \in RunIds, c \in CommentIds : cmd_check(r, c)
    \/ \E r \in RunIds : apply_main(r)
    \/ \E r \in RunIds : cmd_set_applied(r)
    \/ \E c \in CommentIds, state \in COMMENT_STATES : cmd_set(c, state)
    \/ \E r \in RunIds : refresh_main(r)

Spec == Init /\ [][Next]_vars

(***************************************************************************)
(* The codec functions on their own: an input is drawn, one function is    *)
(* applied to it and the result is kept.                                   *)
(***************************************************************************)
\* bound
MaxPatchLen == 2

PatchChars == {ADD("x"), NL, BS, LET_N, DQ}
CodecPatches == UNION {[1..n -> PatchChars] : n \in 0..MaxPatchLen}

FreshBody == BotComment("F", IntLine(2)).body

\* bodies with and without an ISSUE_DATA block, with no, one and two
\* call-to-action lines, and a STATUS marker as status_marker writes it or
\* without its optional spaces
CodecBodies ==
    {prefix \o suffix :
        prefix \in {<<>>, <<TXT, NL>>, FreshBody, <<APPLY_LOGS_LINE, NL, NL, TXT>>,
                    <<TXT, APPLY_LOGS_LINE, SP, TXT, NL, APPLY_LOGS_LINE, NL, NL, TXT>>},
        suffix \in {<<>>, <<OPEN, STATUSKW, W(STATE_APPLIED), CLOSE>>}
                      \cup {<<NL, NL>> \o status_marker(st) \o <<NL>> : st \in COMMENT_STATES}}

CodecIssues ==
    {Issue(FmtCompact, "F", line, 9, "add logging", patch) :
        line \in {IntLine(7), LineNA}, patch \in CodecPatches}

CodecInputs ==
    {[op |-> "set", body |-> b, state |-> st, issue |-> NoneIssue] :
        b \in CodecBodies, st \in COMMENT_STATES}
    \cup
    {[op |-> "issue", body |-> b, state |-> None, issue |-> i] :
        b \in {FreshBody, set_comment_state_body(FreshBody, STATE_APPLIED), <<TXT, NL>>},
        i \in CodecIssues}
    \cup
    {[op |-> "check", body |-> b, state |-> None, issue |-> NoneIssue] :
        b \in CodecBodies}
    \cup
    {[op |-> "cmd_set", body |-> b, state |-> st, issue |-> NoneIssue] :
        b \in {<<>>, FreshBody}
                 \cup {set_comment_state_body(FreshBody, s0) : s0 \in COMMENT_STATES},
        st \in COMMENT_STATES}

InitCodec ==
    /\ cin \in CodecInputs
    /\ cout = NoCodec
    /\ comments = [c \in CommentIds |-> BotComment("F", IntLine(2))]
    /\ files = InitialFiles
    /\ runs = [r \in RunIds |-> IdleRun]
    /\ triggers = 0
    /\ applies = [c \in CommentIds |-> 0]
    /\ report = EmptyReport

\* set_comment_state_body applied once and twice
codec_set_state ==
    /\ cin.op = "set"
    /\ cout = NoCodec
    /\ \E once \in {set_comment_state_body(cin.body, cin.state)} :
       cout' = [op |-> "set", once |-> once,
                twice |-> set_comment_state_body(once, cin.state)]
    /\ UNCHANGED <<comments, files, runs, triggers, applies, report, cin>>

\* replace_issue_data, then extract_issue_data on its result
codec_round_trip ==
    /\ cin.op = "issue"
    /\ cout = NoCodec
    /\ \E encoded \in {replace_issue_data(cin.body, cin.issue)} :
       cout' = [op |-> "issue", encoded |-> encoded,
                decoded |-> IF encoded.ok THEN extract_issue_data(encoded.out)
                            ELSE NoneIssue]
    /\ UNCHANGED <<comments, files, runs, triggers, applies, report, cin>>

\* the set command run on a stored comment, up to twice with the same state
codec_cmd_set ==
    /\ cin.op = "cmd_set"
    /\ cout = NoCodec \/ (cout.op = "cmd_set" /\ cout.n < 2)
    /\ \E env \in {"ok", "fetch_fail", "patch_fail"} :
          \E before \in {IF cout = NoCodec THEN cin.body ELSE cout.body} :
          \E res \in {cmd_set_result(env, before, cin.state)} :
             cout' = [op |-> "cmd_set",
                      n |-> IF cout = NoCodec THEN 1 ELSE cout.n + 1,
                      prev_rc |-> IF cout = NoCodec THEN 1 ELSE cout.rc,
                      before |-> before,
                      body |-> res.body, patched |-> res.patched, rc |-> res.rc]
    /\ UNCHANGED <<comments, files, runs, triggers, applies, report, cin>>

\* one run of the gate on a parent comment with the body cin.body
codec_check ==
    /\ cin.op = "check"
    /\ cout = NoCodec
    /\ \E env \in {"ok", "no_token", "fetch_fail", "trigger_fetch_fail",
                    "no_github_output", "output_file_error"} :
          \E res \in {cmd_check_result(env, cin.body)} :
             cout' = [op |-> "check", env |-> env, outputs |-> res.outputs,
                      should_apply |-> res.should_apply, rc |-> res.rc]
    /\ UNCHANGED <<comments, files, runs, triggers, applies, report, cin>>

NextCodec ==
    \/ codec_set_state
    \/ codec_round_trip
    \/ codec_cmd_set
    \/ codec_check

SpecCodec == InitCodec /\ [][NextCodec]_vars

(***************************************************************************)
(* The patch functions on their own: a patch text is drawn, and one of     *)
(* validate_patch_format, fix_patch_format, normalize_patch_newlines, the  *)
(* apply script and one pass of the refresh loop is run on it.             *)
(***************************************************************************)
\* bound
MaxPatchLines == 3

\* a header with wrong counts, added and removed lines, a context line, a line
\* without prefix, a context line of one space, an empty line
PatchLineKinds ==
    {<<HDR(2, 9, 2, 9)>>, <<ADD("x")>>, <<ADD("t")>>, <<DEL("t")>>, <<CTX("b")>>,
     <<RAW("a")>>, <<CTX("")>>, <<>>}

\* the lines joined by real newlines, by escaped newlines, or by both in turn
RECURSIVE JoinStyled(_, _, _)
JoinStyled(ls, style, k) ==
    IF Len(ls) = 0 THEN <<>>
    ELSE IF Len(ls) = 1 THEN ls[1]
    ELSE ls[1] \o (IF style = "nl" \/ (style = "mixed" /\ k % 2 = 1)
                   THEN <<NL>> ELSE <<BS, LET_N>>)
               \o JoinStyled(Tail(ls), style, k + 1)

PatchTexts ==
    {JoinStyled(ls, style, 1) :
        ls \in UNION {[1..n -> PatchLineKinds] : n \in 1..MaxPatchLines},
        style \in {"nl", "esc", "mixed"}}

PatchInputs ==
    {[op |-> op, patch |-> p, file |-> "F"] :
        op \in {"validate", "fix", "apply", "refresh", "normalize"}, p \in PatchTexts}
    \cup {[op |-> "apply", patch |-> p, file |-> "Z"] : p \in PatchTexts}

InitPatch ==
    /\ cin \in PatchInputs
    /\ cout = NoCodec
    /\ comments = [c \in CommentIds |-> BotComment("F", IntLine(2))]
    /\ files = InitialFiles
    /\ runs = [r \in RunIds |-> IdleRun]
    /\ triggers = 0
    /\ applies = [c \in CommentIds |-> 0]
    /\ report = EmptyReport

\* validate_patch_format on the patch
patch_validate ==
    /\ cin.op = "validate"
    /\ cout = NoCodec
    /\ cout' = [op |-> "validate", valid |-> validate_patch_format(cin.patch)]
    /\ UNCHANGED <<comments, files, runs, triggers, applies, report, cin>>

\* fix_patch_format on the patch
patch_fix ==
    /\ cin.op = "fix"
    /\ cout = NoCodec
    /\ cout' = [op |-> "fix", fixed |-> fix_patch_format(cin.patch)]
    /\ UNCHANGED <<comments, files, runs, triggers, applies, report, cin>>

\* the apply script on a comment that carries the patch for the file
patch_apply ==
    /\ cin.op = "apply"
    /\ cout = NoCodec
    /\ \E res \in {apply_main_result(files,
                        format_review_comment(
                            [line |-> IntLine(2), description |-> "add logging",
                             patch |-> cin.patch],
                            cin.file, sha256(File_F)))} :
          /\ cout' = [op |-> "apply", rc |-> res.rc, stage |-> res.stage]
          /\ files' = res.files
    /\ UNCHANGED <<comments, runs, triggers, applies, report, cin>>

\* one pass of the refresh loop on a candidate for which the oracle answers
\* the patch
patch_refresh ==
    /\ cin.op = "refresh"
    /\ cout = NoCodec
    /\ \E out \in {Outcome(comments[2].body, extract_issue_data(comments[2].body),
                             files["F"], sha256(files["F"]),
                             [kind |-> "dict", patch |-> cin.patch, api_ok |-> TRUE])} :
          /\ cout' = [op |-> "refresh", status |-> out.status, tree_before |-> files]
          /\ comments' = [comments EXCEPT ![2].body = out.body]
          /\ files' = [files EXCEPT !["F"] = out.tree]
    /\ UNCHANGED <<runs, triggers, applies, report, cin>>

\* normalize_patch_newlines on the patch
patch_normalize ==
    /\ cin.op = "normalize"
    /\ cout = NoCodec
    /\ cout' = [op |-> "normalize", normalized |-> normalize_patch_newlines(cin.patch)]
    /\ UNCHANGED <<comments, files, runs, triggers, applies, report, cin>>

NextPatch ==
    \/ patch_validate
    \/ patch_fix
    \/ patch_apply
    \/ patch_refresh
    \/ patch_normalize

SpecPatch == InitPatch /\ [][NextPatch]_vars

(***************************************************************************)
(* The refresh script on its own: the parent comment 1 has been applied    *)
(* and set to applied, the other review comments of the pull request are   *)
(* drawn, and one run of refresh_related_patches.py is made.               *)
(***************************************************************************)
RefreshIds == 1..4

AppliedParent == BotComment("F", IntLine(2))

\* the working tree after the apply step of the parent
AppliedFiles == apply_main_result(InitialFiles, AppliedParent.body).files

\* the body of a comment on line 4 as an earlier refresh run rewrote it
RefreshedBody ==
    Outcome(BotComment("F", IntLine(4)).body,
            extract_issue_data(BotComment("F", IntLine(4)).body),
            AppliedFiles["F"], sha256(AppliedFiles["F"]),
            [kind |-> "dict", api_ok |-> TRUE,
             patch |-> <<HDR(4, 2, 4, 3), NL, CTX("a"), NL, ADD("x"), NL, CTX("b"), NL>>]).body

HumanComment(body) == [body |-> body, user_login |-> "alice"]

\* the review comments a pull request can hold next to the parent: analysis
\* comments downstream on the file (line as a number or a numeric string) and
\* on another file, a reviewer's comment that pastes the source of an
\* analysis comment under a line of their own, a reviewer's plain comment,
\* and an analysis comment an earlier run rewrote
RefreshComments ==
    {BotComment("F", IntLine(4)), BotComment("F", StrLine(5)),
     BotComment("G", IntLine(5)),
     HumanComment(<<TXT, NL>> \o BotComment("F", IntLine(5)).body),
     HumanComment(<<TXT, NL>>),
     [BotComment("F", IntLine(4)) EXCEPT !.body = RefreshedBody]}

\* values of --max-comments
RefreshCaps == {0, 1, 2, DefaultMaxComments}

\* bodies for extract_issue_data: without a block, with a block whose payload
\* is cut short, holds a raw newline or an unescaped quote in a string, and
\* with a block as the analysis writes it
DecodeInputs ==
    {[op |-> "decode", kind |-> "no_block", body |-> b] :
        b \in {<<>>, <<TXT, NL>>, <<BOT, TXT, NL, APPLY_LOGS_LINE>>,
               <<OPEN, STATUSKW, W(STATE_APPLIED), CLOSE>>,
               <<OPEN, SP, ISSUEKW, SP, TXT>>}}
    \cup
    {[op |-> "decode", kind |-> "malformed", body |-> b] :
        b \in {RefreshedBody,
               <<OPEN, SP, ISSUEKW, SP, JOPEN(FmtDefault), JFILE("F"), SP, CLOSE>>,
               <<OPEN, SP, ISSUEKW, SP, TXT, SP, CLOSE>>,
               <<BOT, NL, OPEN, SP, ISSUEKW, SP>>
                   \o json_dumps(Issue(FmtDefault, "F", IntLine(4), 9, "d", <<>>),
                                 FmtDefault)
                   \o <<DQ, SP, CLOSE>>,
               <<OPEN, SP, ISSUEKW, SP, JOPEN(FmtCompact), JFILE("F"),
                 JLINE("int", 4), JHASH(9), JDESC("d"), JPATCH, DQ, JCLOSE,
                 SP, CLOSE>>}}
    \cup
    {[op |-> "decode", kind |-> "wellformed", body |-> c.body] :
        c \in RefreshComments \ {HumanComment(<<TXT, NL>>),
                                 [BotComment("F", IntLine(4)) EXCEPT
                                     !.body = RefreshedBody]}}

\* bodies of the applied comment that main() refuses: without a block, with a
\* block that does not decode, with an empty file field, with a line that is
\* not a number
BadAppliedBodies ==
    {<<BOT, TXT, NL>>,
     RefreshedBody,
     format_review_comment(AnalysisIssue("F", IntLine(2)), "", sha256(File_F)),
     format_review_comment(AnalysisIssue("F", LineNA), "F", sha256(File_F))}

\* the work tree without the file the applied comment names
TreeWithoutF == [f \in {"G"} |-> AppliedFiles[f]]

RefreshInputs ==
    {[op |-> "refresh_run", max_comments |-> m, env |-> e, kind |-> "usable",
      applied_body |-> AppliedParent.body, tree |-> AppliedFiles] :
        m \in RefreshCaps, e \in {"ok", "no_cursor_key"}}
    \cup
    {[op |-> "refresh_run", max_comments |-> DefaultMaxComments, env |-> "ok",
      kind |-> "refused", applied_body |-> b, tree |-> AppliedFiles] :
        b \in BadAppliedBodies}
    \cup
    {[op |-> "refresh_run", max_comments |-> DefaultMaxComments, env |-> e,
      kind |-> "usable", applied_body |-> AppliedParent.body, tree |-> TreeWithoutF] :
        e \in {"ok", "no_cursor_key"}}
    \cup
    {[op |-> "refresh_run", max_comments |-> DefaultMaxComments, env |-> "no_token",
      kind |-> "usable", applied_body |-> AppliedParent.body, tree |-> AppliedFiles]}
    \cup DecodeInputs

InitRefresh ==
    /\ cin \in RefreshInputs
    /\ cout = NoCodec
    /\ \E others \in [RefreshIds \ {1} -> RefreshComments] :
          comments = [c \in RefreshIds |->
                         IF c = 1
                         THEN [AppliedParent EXCEPT
                                  !.body = set_comment_state_body(@, STATE_APPLIED)]
                         ELSE IF cin.op = "decode" THEN BotComment("F", IntLine(4))
                         ELSE others[c]]
    /\ files = IF cin.op = "refresh_run" THEN cin.tree ELSE AppliedFiles
    /\ runs = [r \in RunIds |-> IdleRun]
    /\ triggers = 0
    /\ applies = [c \in CommentIds |-> 0]
    /\ report = EmptyReport

\* one run of main() for the applied parent; the comments as they were listed
\* and the requests sent are kept
refresh_run ==
    /\ cin.op = "refresh_run"
    /\ cout = NoCodec
    /\ \E with_id \in BOOLEAN :
          \E res \in refresh_main_results(comments, files, cin.env, cin.applied_body,
                                          IF with_id THEN 1 ELSE 0,
                                          cin.max_comments, OracleAnswers) :
             /\ comments' = res.comments
             /\ report' = res.report
             /\ files' = res.files
             /\ cout' = [op |-> "refresh_run", rc |-> res.rc, before |-> comments,
                         events |-> res.events, tree_before |-> files]
    /\ UNCHANGED <<runs, triggers, applies, cin>>

\* extract_issue_data on a body
refresh_decode ==
    /\ cin.op = "decode"
    /\ cout = NoCodec
    /\ cout' = [op |-> "decode", issue |-> extract_issue_data(cin.body)]
    /\ UNCHANGED <<comments, files, runs, triggers, applies, report, cin>>

NextRefresh ==
    \/ refresh_run
    \/ refresh_decode

SpecRefresh == InitRefresh /\ [][NextRefresh]_vars

(***************************************************************************)
(* The thread-root walk (apply-suggested-gc-resources/                     *)
(* github_comment_utils.py): a reply graph and a starting comment are      *)
(* drawn, and get_root_comment runs one iteration of its loop at a time.   *)
(* A fetch returns the comment or raises.                                  *)
(***************************************************************************)
\* bound: the comments of a thread
MaxThread == 3

ThreadIds == 1..MaxThread

\* get_root_comment returned None
NoRoot == 0

\* in_reply_to_id of every comment, 0 for a comment without parent; the
\* pointers may form cycles
ReplyGraphs == [ThreadIds -> 0..MaxThread]

RootInputs ==
    {[op |-> "root", in_reply_to |-> g, comment_id |-> s] :
        g \in ReplyGraphs, s \in 0..MaxThread}

\* lines 19-20: current_id = comment_id, visited = set()
InitRoot ==
    /\ cin \in RootInputs
    /\ cout = [op |-> "root", pc |-> "loop", current_id |-> cin.comment_id,
               visited |-> {}, result |-> NoRoot, fetch_failed |-> FALSE]
    /\ comments = [c \in CommentIds |-> BotComment("F", IntLine(2))]
    /\ files = InitialFiles
    /\ runs = [r \in RunIds |-> IdleRun]
    /\ triggers = 0
    /\ applies = [c \in CommentIds |-> 0]
    /\ report = EmptyReport

\* the loop condition without the visited set
WalkContinues_NoVisited(current_id, visited) == current_id # 0

\* line 24: while current_id and current_id not in visited
WalkContinues(current_id, visited) == current_id # 0 /\ current_id \notin visited

\* one iteration of the loop, lines 25-45: the fetch raises, or the comment
\* fetched is the root, or the walk moves to its parent
get_root_comment_iterate ==
    /\ cin.op = "root"
    /\ cout.pc = "loop"
    /\ WalkContinues(cout.current_id, cout.visited)
    /\ \E fetched \in BOOLEAN :
          cout' = IF ~fetched
                  THEN [cout EXCEPT !.pc = "returned",
                                    !.visited = @ \cup {cout.current_id},
                                    !.result = NoRoot,
                                    !.fetch_failed = TRUE]
                  ELSE IF cin.in_reply_to[cout.current_id] = 0
                  THEN [cout EXCEPT !.pc = "returned",
                                    !.visited = @ \cup {cout.current_id},
                                    !.result = cout.current_id]
                  ELSE [cout EXCEPT !.visited = @ \cup {cout.current_id},
                                    !.current_id = cin.in_reply_to[cout.current_id]]
    /\ UNCHANGED <<comments, files, runs, triggers, applies, report, cin>>

\* lines 47-48: the loop condition is false
get_root_comment_exhaust ==
    /\ cin.op = "root"
    /\ cout.pc = "loop"
    /\ ~WalkContinues(cout.current_id, cout.visited)
    /\ cout' = [cout EXCEPT !.pc = "returned", !.result = NoRoot]
    /\ UNCHANGED <<comments, files, runs, triggers, applies, report, cin>>

NextRoot ==
    \/ get_root_comment_iterate
    \/ get_root_comment_exhaust

SpecRoot == InitRoot /\ [][NextRoot]_vars

\* the call runs on: an iteration that can be made is made
SpecRootFair == SpecRoot /\ WF_vars(NextRoot)

(***************************************************************************)
(* Posting the analysis (analyze-pr-code/post_comment.py): the issues of   *)
(* the results file and the configured minimum issue level are drawn, and  *)
(* main() posts the summary and the review comments.                       *)
(***************************************************************************)
\* bound: the issues of the results file
MaxIssues == 2

Severities == {"CRITICAL", "critical", "HIGH", "MEDIUM", "LOW", "UNKNOWN", "", " "}

MinIssueLevels == {"critical", "high", "medium", "low"}

\* an issue of the results file: its severity and its line (a number, "N/A")
PostIssues ==
    {[severity |-> s, line |-> l] : s \in Severities, l \in {IntLine(3), LineNA}}

PostInputs ==
    {[op |-> "post", issues |-> is, min_issue_level |-> lv] :
        is \in UNION {[1..n -> PostIssues] : n \in 0..MaxIssues},
        lv \in MinIssueLevels}

InitPost ==
    /\ cin \in PostInputs
    /\ cout = NoCodec
    /\ comments = [c \in CommentIds |-> BotComment("F", IntLine(2))]
    /\ files = InitialFiles
    /\ runs = [r \in RunIds |-> IdleRun]
    /\ triggers = 0
    /\ applies = [c \in CommentIds |-> 0]
    /\ report = EmptyReport

\* lines 251-252: if not line or line == "N/A"
HasLine(issue) == issue.line.k # "na" /\ issue.line.v # 0

\* main(): the exit code and the indices of the issues posted as review
\* comments, given which requests the API accepts
post_main_result(env, issues, summary_ok, accepted) ==
    IF env = "no_token" THEN [rc |-> 1, posted |-> {}]
    ELSE IF ~summary_ok THEN [rc |-> 1, posted |-> {}]
    ELSE [rc |-> 0,
          posted |-> {i \in DOMAIN issues : HasLine(issues[i]) /\ accepted[i]}]

\* one run of main() on the results file
post_main ==
    /\ cin.op = "post"
    /\ cout = NoCodec
    /\ \E env \in {"ok", "no_token"}, summary_ok \in BOOLEAN,
          accepted \in [DOMAIN cin.issues -> BOOLEAN] :
          \E res \in {post_main_result(env, cin.issues, summary_ok, accepted)} :
             cout' = [op |-> "post", rc |-> res.rc, posted |-> res.posted]
    /\ UNCHANGED <<comments, files, runs, triggers, applies, report, cin>>

NextPost == post_main

SpecPost == InitPost /\ [][NextPost]_vars

(***************************************************************************)
(* A refresh run and a set-state run on one comment.  Each is a workflow    *)
(* step of its own; refresh lists the comments once (line 466) and sends   *)
(* its update later (line 566), the set command fetches the comment (line  *)
(* 153) and sends its PATCH later (line 168).  Nothing in the sources      *)
(* orders the requests of the two runs.                                    *)
(***************************************************************************)
\* the comment both runs work on
RaceId == 2

\* the bodies comment RaceId may start with: as the analysis posted it, and
\* with the marker of each state
RaceBodies ==
    {BotComment("F", IntLine(4)).body}
    \cup {set_comment_state_body(BotComment("F", IntLine(4)).body, st) :
              st \in COMMENT_STATES}

\* the state the set run is asked for, the answer of the oracle to the refresh
\* run, and what the set run meets
RaceInputs ==
    {[op |-> "race", state |-> st, oracle |-> o, set_env |-> e] :
        st \in COMMENT_STATES, o \in OracleAnswers,
        e \in {"ok", "fetch_fail", "patch_fail"}}

InitRace ==
    /\ cin \in RaceInputs
    /\ \E b \in RaceBodies :
          comments = [c \in CommentIds |->
                         IF c = RaceId
                         THEN [BotComment("F", IntLine(4)) EXCEPT !.body = b]
                         ELSE AppliedParent]
    /\ cout = [op |-> "race", refresh_pc |-> "start", listed |-> <<>>,
               status |-> "none", set_pc |-> "start", fetched |-> <<>>,
               set_rc |-> 0, set_wrote |-> FALSE]
    /\ files = AppliedFiles
    /\ runs = [r \in RunIds |-> IdleRun]
    /\ triggers = 0
    /\ applies = [c \in CommentIds |-> 0]
    /\ report = EmptyReport

\* refresh: list_pr_review_comments (line 466)
race_refresh_list ==
    /\ cout.refresh_pc = "start"
    /\ cout' = [cout EXCEPT !.refresh_pc = "listed",
                            !.listed = comments[RaceId].body]
    /\ UNCHANGED <<comments, files, runs, triggers, applies, report, cin>>

\* refresh: the pass of the loop for the comment (lines 523-573), working on
\* the body it listed; an update replaces the stored body
race_refresh_update ==
    /\ cout.refresh_pc = "listed"
    /\ \E out \in {Outcome(cout.listed, extract_issue_data(cout.listed),
                             files["F"], sha256(files["F"]), cin.oracle)} :
          /\ comments' = IF out.status = "updated"
                         THEN [comments EXCEPT ![RaceId].body = out.body]
                         ELSE comments
          /\ files' = [files EXCEPT !["F"] = out.tree]
          /\ cout' = [cout EXCEPT !.refresh_pc = "done", !.status = out.status]
    /\ UNCHANGED <<runs, triggers, applies, report, cin>>

\* set: _get_comment (line 153); a failed fetch ends the run
race_set_fetch ==
    /\ cout.set_pc = "start"
    /\ cout' = IF cin.set_env = "fetch_fail"
               THEN [cout EXCEPT !.set_pc = "done", !.set_rc = 1]
               ELSE [cout EXCEPT !.set_pc = "fetched",
                                 !.fetched = comments[RaceId].body]
    /\ UNCHANGED <<comments, files, runs, triggers, applies, report, cin>>

\* set: the rest of _cmd_set (lines 159-175) on the body it fetched
race_set_write ==
    /\ cout.set_pc = "fetched"
    /\ \E res \in {cmd_set_result(cin.set_env, cout.fetched, cin.state)} :
          /\ comments' = IF res.patched /\ res.rc = 0
                         THEN [comments EXCEPT ![RaceId].body = res.body]
                         ELSE comments
          /\ cout' = [cout EXCEPT !.set_pc = "done", !.set_rc = res.rc,
                                  !.set_wrote = res.patched /\ res.rc = 0]
    /\ UNCHANGED <<files, runs, triggers, applies, report, cin>>

NextRace ==
    \/ race_refresh_list
    \/ race_refresh_update
    \/ race_set_fetch
    \/ race_set_write

SpecRace == InitRace /\ [][NextRace]_vars

(***************************************************************************)
(* The context sent to the oracle (refresh_related_patches.py              *)
(* extract_context_slices).  A text is the sequence of the lengths of its  *)
(* lines, and a string is its length.                                      *)
(***************************************************************************)
MaxLines   == 250
MaxLineLen == 40

\* refresh_related_patches.py:221-222: lines kept at the head and at the tail
HeadTailLines == 200
\* refresh_related_patches.py:227-228: lines kept on each side of approx_line
AroundWindow == 120
\* refresh_related_patches.py:247
ShrinkWindows == <<80, 60, 40, 20, 10>>

\* the lengths of "FILE_CONTEXT_BEGIN\n", "=== FILE_HEAD ===\n",
\* "=== FILE_AROUND_LINE ===\n", "=== FILE_TAIL ===\n", "FILE_CONTEXT_END\n"
FrameChars == 19 + 18 + 25 + 18 + 17

\* the lengths of "\n\n...[TRUNCATED CONTEXT: " and " chars total]...\n"
SuffixFixedChars == 25 + 17

Min(a, b) == IF a <= b THEN a ELSE b
Max(a, b) == IF a >= b THEN a ELSE b

\* len(str(n)) for n >= 0
RECURSIVE Digits(_)
Digits(n) == IF n < 10 THEN 1 ELSE 1 + Digits(n \div 10)

\* len(join_slice(start, end)): every line of lines[start:end] and its "\n",
\* summed by halves
RECURSIVE join_slice(_, _, _)
join_slice(lines, start, end) ==
    IF start >= end \/ start >= Len(lines) THEN 0
    ELSE IF end > Len(lines) THEN join_slice(lines, start, Len(lines))
    ELSE IF end = start + 1 THEN lines[end] + 1
    ELSE join_slice(lines, start, (start + end) \div 2)
         + join_slice(lines, (start + end) \div 2, end)

\* len(context) for a window of win lines on each side of approx_line
ContextLen(lines, approx_line, win) ==
    FrameChars
    + join_slice(lines, 0, Min(HeadTailLines, Len(lines)))
    + (IF approx_line # 0 /\ 1 <= approx_line /\ approx_line <= Len(lines)
       THEN join_slice(lines, Max(0, approx_line - 1 - win),
                       Min(Len(lines), approx_line - 1 + win))
       ELSE 0)
    + join_slice(lines, Max(0, Len(lines) - HeadTailLines), Len(lines))

\* the hard truncation of lines 261-264: context[:keep] + suffix
Truncated(context_len, max_chars) ==
    Min(context_len, Max(0, max_chars - (SuffixFixedChars + Digits(context_len))))
    + SuffixFixedChars + Digits(context_len)

\* the shrinking loop of lines 246-260 from window k on, then the truncation
RECURSIVE Shrink(_, _, _, _)
Shrink(lines, approx_line, max_chars, k) ==
    IF k > Len(ShrinkWindows)
    THEN [len |-> Truncated(ContextLen(lines, approx_line, ShrinkWindows[Len(ShrinkWindows)]),
                            max_chars),
          truncated |-> TRUE]
    ELSE IF ContextLen(lines, approx_line, ShrinkWindows[k]) <= max_chars
         THEN [len |-> ContextLen(lines, approx_line, ShrinkWindows[k]),
               truncated |-> FALSE]
         ELSE Shrink(lines, approx_line, max_chars, k + 1)

\* extract_context_slices: the length of the string returned and whether it
\* was cut; approx_line 0 stands for None (both are falsy at lines 225, 246)
extract_context_slices(lines, approx_line, max_chars) ==
    IF ContextLen(lines, approx_line, AroundWindow) <= max_chars
    THEN [len |-> ContextLen(lines, approx_line, AroundWindow), truncated |-> FALSE]
    ELSE IF approx_line # 0 /\ 1 <= approx_line /\ approx_line <= Len(lines)
         THEN Shrink(lines, approx_line, max_chars, 1)
         ELSE [len |-> Truncated(ContextLen(lines, approx_line, AroundWindow), max_chars),
               truncated |-> TRUE]

\* texts of no, one, a few and many lines, empty, short and long; the line
\* asked for absent, first, in the middle, last and past the end; limits
\* below, at and above the length of the truncation notice and of the frame
ContextInputs ==
    {[op |-> "context", lines |-> [i \in 1..n |-> w], approx_line |-> a,
      max_chars |-> m] :
        n \in {0, 1, 3, 30, MaxLines}, w \in {0, 10, MaxLineLen},
        a \in {0, 1, 2, 15, MaxLines, MaxLines + 1},
        m \in {0, 30, 44, 45, 46, 97, 150, 1000, 5000, 10000, 20000, 40000}}

InitContext ==
    /\ cin \in ContextInputs
    /\ cout = NoCodec
    /\ comments = [c \in CommentIds |-> BotComment("F", IntLine(2))]
    /\ files = InitialFiles
    /\ runs = [r \in RunIds |-> IdleRun]
    /\ triggers = 0
    /\ applies = [c \in CommentIds |-> 0]
    /\ report = EmptyReport

context_slices ==
    /\ cin.op = "context"
    /\ cout = NoCodec
    /\ \E res \in {extract_context_slices(cin.lines, cin.approx_line, cin.max_chars)} :
          cout' = [op |-> "context", len |-> res.len, truncated |-> res.truncated]
    /\ UNCHANGED <<comments, files, runs, triggers, applies, report, cin>>

NextContext == context_slices

SpecContext == InitContext /\ [][NextContext]_vars

(***************************************************************************)
(* Vocabulary of the properties                                            *)
(***************************************************************************)
\* positions where a STATUS marker is written, as status_marker writes it
MarkerPositions(b) ==
    {i \in 1..Len(b) : \E st \in COMMENT_STATES : OccursAt(b, status_marker(st), i)}

\* number of STATUS markers written in a body, whatever state they name
StatusMarkerCount(b) == Cardinality(MarkerPositions(b))

\* the state whose marker a body carries (the first one); no marker: analyzed
WrittenState(b) ==
    Bind(MarkerPositions(b), LAMBDA ps :
    IF ps = {} THEN STATE_ANALYZED
    ELSE Bind(CHOOSE p \in ps : \A q \in ps : p <= q, LAMBDA i :
         CHOOSE st \in COMMENT_STATES : OccursAt(b, status_marker(st), i)))

\* the state get_comment_state decodes, absence counting as analyzed
DecodedState(b) ==
    Bind(get_comment_state(b), LAMBDA state :
         IF state = None THEN STATE_ANALYZED ELSE state)

StateRank(state) ==
    IF state = STATE_ANALYZED THEN 0 ELSE IF state = STATE_APPLIED THEN 1 ELSE 2

\* the steps of run r
CheckStep(r)   == runs[r].pc = "idle" /\ runs'[r].pc # "idle"
ApplyStep(r)   == runs[r].pc = "apply" /\ runs'[r].pc # "apply"
RefreshStep(r) == runs[r].pc = "refresh" /\ runs'[r].pc # "refresh"

(***************************************************************************)
(* Properties                                                              *)
(***************************************************************************)
\* C1: the gate, having fetched the parent comment, writes should_apply=true
\* if and only if the parent is in state analyzed (no marker counting as
\* analyzed); for a parent carrying the applied or the gc-integrated marker it
\* writes should_apply=false.
C1_GatePermitsIffAnalyzed ==
    [][\A r \in RunIds : \A c \in CommentIds :
          (CheckStep(r) /\ runs'[r].parent = c /\ runs'[r].fetched)
             => ((runs'[r].should_apply = "true")
                    <=> (WrittenState(comments[c].body) = STATE_ANALYZED))]_vars

\* C2: whatever the interleaving of the runs triggered for one comment, the
\* patch of that comment changes the file at most once.
C2_PatchAppliedAtMostOnce ==
    \A c \in CommentIds : applies[c] <= 1

\* C3: an apply attempt on a comment whose current state is applied or
\* gc-integrated ends in a conflict (a non-zero exit) and leaves every file
\* as it was.
C3_ApplyOnSettledCommentConflicts ==
    [][\A r \in RunIds :
          (ApplyStep(r) /\ WrittenState(comments[runs[r].parent].body) # STATE_ANALYZED)
             => (files' = files /\ runs'[r].rc # 0)]_vars

\* C4: no set operation moves the decoded state of a comment backwards in the
\* order analyzed, applied, gc-integrated.
C4_StateOnlyAdvances ==
    [][\A c \in CommentIds :
          (\A r \in RunIds : ~RefreshStep(r))
             => StateRank(DecodedState(comments'[c].body))
                   >= StateRank(DecodedState(comments[c].body))]_vars

\* C5: a refresh run never selects as a candidate, and never rewrites, a comment
\* whose state is applied or gc-integrated.
C5_RefreshSkipsSettledComments ==
    [][\A r \in RunIds : RefreshStep(r) =>
          \A c \in CommentIds :
             (WrittenState(comments[c].body) # STATE_ANALYZED)
                => /\ \A k \in 1..Len(report'.candidates) : report'.candidates[k] # c
                   /\ comments'[c] = comments[c]]_vars

\* C6: a refresh run for the applied issue (file F, line L) changes a comment
\* only if the issue decoded from it has file F and a numeric line strictly
\* greater than L, and never changes the applied comment itself.
C6_RefreshUpdatesDownstreamOnly ==
    [][\A r \in RunIds : RefreshStep(r) =>
          \A c \in CommentIds : comments'[c] # comments[c] =>
             \E applied \in {extract_issue_data(runs[r].checked_body)},
                meta \in {extract_issue_data(comments[c].body)} :
                /\ meta.ok
                /\ meta.file = applied.file
                /\ meta.line.k \in {"int", "str"}
                /\ meta.line.v > applied.line.v
                /\ c # runs[r].parent]_vars

\* a refresh run has updated a comment downstream of the applied one while a
\* comment on the applied line, on another file or without a line was listed
C6_Witness ==
    /\ report.reached
    /\ report.updated # {}
    /\ \E c \in CommentIds : \A k \in 1..Len(report.candidates) : report.candidates[k] # c

\* C7: in a refresh batch every candidate is attempted whatever failed before
\* it, the body of a failed candidate is unchanged, and the run exits with 0.
C7_BatchSurvivesFailures ==
    [][\A r \in RunIds : (RefreshStep(r) /\ report'.reached) =>
          /\ report'.attempted = report'.candidates
          /\ \A c \in report'.failed : comments'[c] = comments[c]
          /\ \A c \in CommentIds :
                c \notin report'.updated => comments'[c] = comments[c]
          /\ runs'[r].rc = 0]_vars

\* a batch of two candidates ended with one failed and the other updated
C7_Witness ==
    /\ report.reached
    /\ Len(report.attempted) = 2
    /\ report.failed # {}
    /\ report.updated # {}

\* C8: for a body that contains an ISSUE_DATA block and any issue record,
\* replace_issue_data succeeds and extract_issue_data of its result is that
\* record.
C8_IssueDataRoundTrip ==
    (cout.op = "issue" /\ ISSUE_DATA_RE_search(cin.body).found)
       => (cout.encoded.ok /\ cout.decoded.ok /\ SameIssue(cout.decoded, cin.issue))

\* C9: set_comment_state_body applied twice gives the body it gives applied
\* once, and that body has a single STATUS marker when the input had at most one.
C9_SetStateIdempotent ==
    cout.op = "set"
       => /\ cout.twice = cout.once
          /\ (StatusMarkerCount(cin.body) <= 1
                 => StatusMarkerCount(cout.twice) <= 1)

\* C10: whatever set commands and refresh rewrites have happened, each comment
\* body contains at most one ISSUE_DATA block and at most one STATUS marker.
C10_AtMostOneBlockEach ==
    \A c \in CommentIds :
       /\ IssueDataCount(comments[c].body) <= 1
       /\ StatusMarkerCount(comments[c].body) <= 1

\* C11: for every body and every state s, get_comment_state of
\* set_comment_state_body(body, s) is s.
C11_StateMarkerRoundTrip ==
    cout.op = "set" => get_comment_state(cout.once) = cin.state

\* indexes of a body that hold the call-to-action line
CallToActionAt(b) == {i \in 1..Len(b) : b[i] = APPLY_LOGS_LINE}

\* C12: setting applied on a body without a STATUS marker gives a body with
\* exactly one STATUS marker, the applied one, in which the first call-to-action
\* line has become the Applied line and every other one is as it was.
C12_AppliedReplacesFirstCallToActionOnly ==
    (cout.op = "set" /\ cin.state = STATE_APPLIED /\ ~HasTok(cin.body, STATUSKW))
       => /\ StatusMarkerCount(cout.once) = 1
          /\ WrittenState(cout.once) = STATE_APPLIED
          /\ \A i \in CallToActionAt(cin.body) :
                IF \A q \in CallToActionAt(cin.body) : i <= q
                THEN cout.once[i] = APPLIED_LINE
                ELSE cout.once[i] = APPLY_LOGS_LINE

\* C13: a set command with state s on a comment that a previous set command
\* put into s sends no PATCH and leaves the stored body as it was.
C13_SetAlreadyInStateWritesNothing ==
    (cout.op = "cmd_set" /\ cout.n = 2 /\ cout.prev_rc = 0)
       => (~cout.patched /\ cout.body = cout.before)

\* C14: an apply of an issue that carries a file hash, on a file whose current
\* SHA-256 differs from it, fails and leaves every file as it was.
C14_StaleFileBlocksApply ==
    [][\A r \in RunIds : ApplyStep(r) =>
          \E issue \in {parse_issue_from_comment(runs[r].checked_body)} :
             (/\ issue.ok
              /\ issue.file \in DOMAIN files
              /\ issue.file_hash # sha256(files[issue.file]))
                => (files' = files /\ runs'[r].rc # 0)]_vars

\* C15: an apply of a patch that validate_patch_format rejects, on a file
\* that exists, fails without reaching git apply and leaves the file as it was.
C15_InvalidPatchNeverReachesGit ==
    (cout.op = "apply" /\ cin.file \in DOMAIN InitialFiles
        /\ ~validate_patch_format(cin.patch))
       => (cout.rc # 0 /\ cout.stage # AT_GIT /\ files = InitialFiles)

\* C16: an apply for a file path that does not exist fails at the existence
\* test, before the format validation and before git apply, and no file is
\* created or changed.
C16_MissingFileIsNotFound ==
    (cout.op = "apply" /\ cin.file \notin DOMAIN InitialFiles)
       => (cout.rc # 0 /\ cout.stage = AT_NOT_FOUND /\ files = InitialFiles)

\* an apply for a missing file has run on a patch that the format validation
\* would have rejected
C16_Witness ==
    /\ cout.op = "apply"
    /\ cin.file \notin DOMAIN InitialFiles
    /\ cout.stage = AT_NOT_FOUND
    /\ ~PatchApplier_validate_patch_format(
           fix_patch_format(normalize_patch_newlines(cin.patch)))

\* the lines of a patch text once its newlines are normalized
NormalizedLines(patch) == SplitLines(normalize_patch_newlines(patch))

\* lines i and j belong to one hunk: a header precedes both and none lies
\* between them
SameHunk(lines, i, j) ==
    /\ \E h \in 1..(IF i < j THEN i ELSE j) - 1 : StartsWith(lines[h], "@@")
    /\ \A k \in (IF i < j THEN i ELSE j)..(IF i < j THEN j ELSE i) :
          ~StartsWith(lines[k], "@@")

\* a removed line and an added line of one hunk have the same content
HasNoOpPair(patch) ==
    \E i, j \in 1..Len(NormalizedLines(patch)) :
       /\ StartsWith(NormalizedLines(patch)[i], "-")
       /\ StartsWith(NormalizedLines(patch)[j], "+")
       /\ NormalizedLines(patch)[i][1].s = NormalizedLines(patch)[j][1].s
       /\ Tail(NormalizedLines(patch)[i]) = Tail(NormalizedLines(patch)[j])
       /\ SameHunk(NormalizedLines(patch), i, j)

\* C17: validate_patch_format is false for every patch in which a removed
\* line and an added line of one hunk have the same content, and a pass of the
\* refresh loop never stores such a patch.
C17_NoOpPairIsInvalid ==
    HasNoOpPair(cin.patch)
       => /\ cout.op = "validate" => ~cout.valid
          /\ cout.op = "refresh" => cout.status # "updated"

\* a hunk header "@@ ... @@" occurs in the text
HasHunkHeader(patch) == \E i \in 1..Len(patch) : patch[i].t = "@@"

\* a line of the text begins with + or -
HasChangedLine(patch) ==
    \E i \in 1..Len(patch) :
       (i = 1 \/ patch[i - 1] = NL) /\ patch[i].t \in {"+", "-"}

\* C18: validate_patch_format is true exactly when the newline-normalized
\* patch has a hunk header and a line that begins with + or -.
C18_ValidIffHeaderAndChange ==
    cout.op = "validate"
       => (cout.valid <=> (/\ HasHunkHeader(normalize_patch_newlines(cin.patch))
                           /\ HasChangedLine(normalize_patch_newlines(cin.patch))))

\* a patch written with escaped newlines was found valid
C18_Witness ==
    /\ cout.op = "validate"
    /\ cout.valid
    /\ Contains(cin.patch, <<BS, LET_N>>)

\* the lines that follow header line i up to the next header
HunkLines(lines, i) ==
    {k \in (i + 1)..Len(lines) : \A h \in (i + 1)..k : ~StartsWith(lines[h], "@@")}

\* C19: after fix_patch_format the old count of every hunk header is the
\* number of - lines and lines beginning with a space that follow it up to the
\* next header, and its new count the number of + lines and lines beginning
\* with a space, a line of spaces only counting as such a line.
C19_HeaderCountsMatchLines ==
    cout.op = "fix" =>
       \A i \in 1..Len(SplitLines(cout.fixed)) :
          StartsWith(SplitLines(cout.fixed)[i], "@@") =>
             /\ HdrOldCount(SplitLines(cout.fixed)[i][1]) =
                   Cardinality({k \in HunkLines(SplitLines(cout.fixed), i) :
                       \/ StartsWith(SplitLines(cout.fixed)[k], "-")
                       \/ StartsWithSpace(SplitLines(cout.fixed)[k])})
             /\ HdrNewCount(SplitLines(cout.fixed)[i][1]) =
                   Cardinality({k \in HunkLines(SplitLines(cout.fixed), i) :
                       \/ StartsWith(SplitLines(cout.fixed)[k], "+")
                       \/ StartsWithSpace(SplitLines(cout.fixed)[k])})

\* line i of the lines follows the first hunk header
AfterFirstHeader(lines, i) == \E h \in 1..(i - 1) : StartsWith(lines[h], "@@")

\* the line begins with +, - or a space
HasPrefix(line) ==
    StartsWith(line, "+") \/ StartsWith(line, "-") \/ StartsWithSpace(line)

\* the texts a line can be written as once a space is put before it
WithSpace(line) ==
    IF Len(line) = 0 THEN {<<SP>>, <<CTX("")>>}
    ELSE IF line[1].t = "raw" THEN {<<CTX(line[1].s)>> \o Tail(line)}
    ELSE {<<SP>> \o line}

\* C20: fix_patch_format keeps the number of lines; a line before the first
\* hunk header, and a line after it that begins with +, - or a space, is
\* unchanged; every other line after the first header that is not itself a
\* header has one space put before it.  The text after a final newline is not
\* taken as a line.
C20_UnprefixedLinesGetSpace ==
    (cout.op = "fix" /\ ~IsBlank(cin.patch)) =>
       /\ Len(SplitLines(cout.fixed)) = Len(NormalizedLines(cin.patch))
       /\ \A i \in 1..Len(NormalizedLines(cin.patch)) :
             IF StartsWith(NormalizedLines(cin.patch)[i], "@@")
                   \/ (i > 1 /\ i = Len(NormalizedLines(cin.patch))
                          /\ NormalizedLines(cin.patch)[i] = <<>>)
             THEN TRUE
             ELSE IF ~AfterFirstHeader(NormalizedLines(cin.patch), i)
                       \/ HasPrefix(NormalizedLines(cin.patch)[i])
             THEN SplitLines(cout.fixed)[i] = NormalizedLines(cin.patch)[i]
             ELSE SplitLines(cout.fixed)[i] \in WithSpace(NormalizedLines(cin.patch)[i])

\* every real newline written back as the two characters backslash, n
RECURSIVE EscapeNewlines(_)
EscapeNewlines(cs) ==
    IF Len(cs) = 0 THEN <<>>
    ELSE (IF Head(cs) = NL THEN <<BS, LET_N>> ELSE <<Head(cs)>>)
            \o EscapeNewlines(Tail(cs))

\* C21: normalize_patch_newlines replaces every literal backslash-n by a real
\* newline exactly when the patch contains the escape and no real newline (the
\* result then holds no escape, and escaping its newlines gives the patch
\* back); in every other case it returns the patch unchanged.
C21_NormalizeOnlyWhenNoRealNewline ==
    cout.op = "normalize" =>
        IF Contains(cin.patch, <<BS, LET_N>>) /\ ~HasTok(cin.patch, NL)
        THEN /\ ~Contains(cout.normalized, <<BS, LET_N>>)
             /\ EscapeNewlines(cout.normalized) = cin.patch
        ELSE cout.normalized = cin.patch

\* a patch of several lines joined by escapes only has been normalized
C21_Witness ==
    /\ cout.op = "normalize"
    /\ Contains(cin.patch, <<BS, LET_N>>)
    /\ ~HasTok(cin.patch, NL)
    /\ HasTok(cout.normalized, NL)
    /\ Len(SplitLines(cout.normalized)) = MaxPatchLines

(***************************************************************************)
(* Vocabulary of the refresh properties: a finished run of the refresh     *)
(* script, the comments as it listed them and the requests it sent.        *)
(***************************************************************************)
RefreshRan == cout.op = "refresh_run"

\* the text of a body before and after its first ISSUE_DATA block
OutsideBlock(b) ==
    Bind(ISSUE_DATA_RE_search(b), LAMBDA m :
         IF ~m.found THEN <<b, <<>>>>
         ELSE <<SubSeq(b, 1, m.start - 1), SubSeq(b, m.stop + 1, Len(b))>>)

\* the members of an issue other than patch and file_hash
OtherFields(issue) == [issue EXCEPT !.patch = <<>>, !.file_hash = 0, !.fmt = 0]

\* C22: when refresh updates a comment, the new body differs from the old one
\* only inside the ISSUE_DATA block (so the STATUS marker and the visible
\* text are unchanged), and the block still decodes to an issue that differs
\* from the old issue only in patch and file_hash.
C22_RefreshChangesPatchAndHashOnly ==
    RefreshRan =>
        \A c \in report.updated :
            /\ OutsideBlock(comments[c].body) = OutsideBlock(cout.before[c].body)
            /\ extract_issue_data(comments[c].body).ok
            /\ OtherFields(extract_issue_data(comments[c].body))
                  = OtherFields(extract_issue_data(cout.before[c].body))

\* number of comment-update requests a run sent for comment c
UpdateCalls(c) ==
    Cardinality({i \in DOMAIN cout.events : cout.events[i] = [op |-> "update", c |-> c]})

\* C23 (as stated): a run sends exactly one comment-update request for each
\* candidate it counts as updated and none for any other comment, the
\* candidates it counts as skipped or failed included.
C23_OneUpdateCallIffUpdated ==
    RefreshRan =>
        \A c \in RefreshIds :
            UpdateCalls(c) = IF c \in report.updated THEN 1 ELSE 0

\* C23 (amended): a run sends exactly one comment-update request for each
\* candidate it counts as updated, none for a candidate it counts as skipped
\* and none for a comment it did not attempt; a candidate it counts as failed
\* has at most one request, and its stored body is the one listed.
C23_OneUpdateCallPerWrite ==
    RefreshRan =>
        \A c \in RefreshIds :
            /\ c \in report.updated => UpdateCalls(c) = 1
            /\ c \in report.skipped => UpdateCalls(c) = 0
            /\ (\A k \in DOMAIN report.attempted : report.attempted[k] # c)
                  => UpdateCalls(c) = 0
            /\ c \in report.failed
                  => UpdateCalls(c) <= 1 /\ comments[c] = cout.before[c]

\* a run updated one candidate and counted as failed another whose update
\* request was sent
C23_Witness ==
    /\ RefreshRan
    /\ \E c \in report.updated : UpdateCalls(c) = 1
    /\ \E c \in report.failed : UpdateCalls(c) = 1
    /\ \E c \in report.failed : UpdateCalls(c) = 0

\* C24: refresh never edits a human-authored comment: every comment a run
\* updates was written by the bot account, and a reviewer's comment that
\* quotes an analysis comment is left as it was.
C24_RefreshNeverEditsHumanComment ==
    RefreshRan =>
        \A c \in RefreshIds :
            cout.before[c].user_login # "github-actions[bot]"
                => c \notin report.updated /\ comments[c] = cout.before[c]

\* the file_hash member written in the first ISSUE_DATA block of a body
StoredFileHash(b) ==
    Bind(ISSUE_DATA_RE_search(b), LAMBDA m :
         IF ~m.found \/ ~\E i \in m.g1..m.g2 : b[i].t = "file_hash" THEN None
         ELSE b[CHOOSE i \in m.g1..m.g2 :
                   b[i].t = "file_hash"
                   /\ \A j \in m.g1..(i - 1) : b[j].t # "file_hash"].n)

\* C25: every comment a run updates stores the same file_hash, the hash of
\* the content of the target file that the run read once and checked the new
\* patches against.
C25_UpdatedCommentsStoreCurrentHash ==
    RefreshRan =>
        \A c \in report.updated :
            StoredFileHash(comments[c].body) = sha256(files["F"])

\* two comments were updated in one run, and the hash they now store is not
\* the one the analysis stored
C25_Witness ==
    /\ RefreshRan
    /\ Cardinality(report.updated) >= 2
    /\ \A c \in report.updated :
          /\ StoredFileHash(cout.before[c].body) = sha256(File_F)
          /\ StoredFileHash(comments[c].body) # sha256(File_F)

\* the issue line of a comment as the run listed it
LineOf(c) == parse_int_line(extract_issue_data(cout.before[c].body).line).v

\* C26: candidates are processed in ascending order of issue line: every
\* request (oracle call, comment update) for a candidate with a smaller line
\* is sent before every request for a candidate with a larger line, and the
\* update of a candidate follows its oracle call.
C26_AscendingLineOrder ==
    RefreshRan =>
        /\ \A i, j \in DOMAIN cout.events :
              LineOf(cout.events[i].c) < LineOf(cout.events[j].c) => i < j
        /\ \A j \in DOMAIN cout.events :
              cout.events[j].op = "update"
                  => \E i \in 1..(j - 1) :
                        cout.events[i] = [op |-> "send_message", c |-> cout.events[j].c]

\* a comment on line 5 was listed before one on line 4, and both were updated
C26_Witness ==
    /\ RefreshRan
    /\ \E a, b \in report.updated :
          /\ a < b
          /\ LineOf(a) > LineOf(b)
          /\ \E i, j \in DOMAIN cout.events :
                /\ i < j
                /\ cout.events[i] = [op |-> "update", c |-> b]
                /\ cout.events[j] = [op |-> "send_message", c |-> a]

\* the comments downstream of the applied parent, as the run listed them
Downstream ==
    {c \in RefreshIds :
        IsCandidate(c, cout.before[c], extract_issue_data(cout.before[c].body),
                    parse_int_line(extract_issue_data(cout.before[c].body).line),
                    "F", 2, 1)}

Attempted == {report.attempted[k] : k \in DOMAIN report.attempted}

\* C27: a run that reaches its loop attempts at most max_comments
\* candidates, all of them if they are no more than max_comments; the ones
\* attempted have the smallest lines, and the others are left unchanged.
C27_CapKeepsSmallestLines ==
    (RefreshRan /\ report.reached) =>
        /\ Len(report.attempted) =
              IF Cardinality(Downstream) > cin.max_comments THEN cin.max_comments
              ELSE Cardinality(Downstream)
        /\ Attempted \subseteq Downstream
        /\ \A a \in Attempted, b \in Downstream \ Attempted : LineOf(a) <= LineOf(b)
        /\ \A b \in RefreshIds \ Attempted : comments[b] = cout.before[b]

\* three candidates were downstream, the cap was two, and the two attempted
\* were updated
C27_Witness ==
    /\ RefreshRan
    /\ report.reached
    /\ cin.max_comments = 2
    /\ Cardinality(Downstream) = 3
    /\ Cardinality(report.updated) = 2
    /\ \E b \in Downstream \ Attempted : \A a \in Attempted : LineOf(a) < LineOf(b)

\* bodies without a block or with an undecodable payload
UndecodableBodies ==
    {i.body : i \in {d \in DecodeInputs : d.kind \in {"no_block", "malformed"}}}

\* C28: extract_issue_data returns None for a body without an ISSUE_DATA
\* block and for one whose payload is not parseable JSON; a refresh run does
\* not attempt a comment with such a body and leaves it unchanged.
C28_UndecodableIsNoneAndUntouched ==
    /\ (cout.op = "decode" /\ cin.kind \in {"no_block", "malformed"})
          => cout.issue = NoneIssue
    /\ RefreshRan =>
          \A c \in RefreshIds :
              cout.before[c].body \in UndecodableBodies
                  => c \notin Attempted /\ comments[c] = cout.before[c]

\* a run updated a candidate while a rewritten comment downstream on the same
\* file, whose payload no longer parses, was in the listing
C28_Witness ==
    /\ RefreshRan
    /\ report.updated # {}
    /\ \E c \in RefreshIds :
          /\ cout.before[c].body = RefreshedBody
          /\ cout.before[c].body \in UndecodableBodies
          /\ ISSUE_DATA_RE_search(cout.before[c].body).found

\* the k-th comment up the in_reply_to pointers from id, 0 past a root
RECURSIVE Ancestor(_, _, _)
Ancestor(g, id, k) ==
    IF k = 0 \/ id = 0 THEN id ELSE Ancestor(g, g[id], k - 1)

\* the steps from the start after which a comment without parent is reached
RootSteps(g, start) ==
    {k \in 0..(MaxThread - 1) :
        Ancestor(g, start, k) # 0 /\ g[Ancestor(g, start, k)] = 0}

\* the first comment without parent up the pointers from the start, if any
RootOf(g, start) ==
    IF RootSteps(g, start) = {} THEN NoRoot
    ELSE Ancestor(g, start, CHOOSE k \in RootSteps(g, start) :
                                \A j \in RootSteps(g, start) : k <= j)

RootReturned == cout.op = "root" /\ cout.pc = "returned"

\* C29: get_root_comment terminates for every reply graph, cycles included;
\* it returns the first comment reached that has no parent, and None when a
\* fetch fails or the walk comes back to a comment it has visited.
C29_RootWalkTerminates ==
    /\ <>RootReturned
    /\ [](RootReturned =>
             cout.result = IF cout.fetch_failed THEN NoRoot
                           ELSE RootOf(cin.in_reply_to, cin.comment_id))

\* the walk went round a cycle through every comment of the thread, no fetch
\* failed, and the call has returned None
C29_Witness ==
    /\ RootReturned
    /\ ~cout.fetch_failed
    /\ cout.visited = ThreadIds
    /\ cout.current_id \in cout.visited
    /\ cout.result = NoRoot

\* str.strip().upper() on the severities of the model
UpperStripped(s) ==
    IF s \in {"CRITICAL", "critical"} THEN "CRITICAL"
    ELSE IF s \in {"HIGH", "high"} THEN "HIGH"
    ELSE IF s \in {"MEDIUM", "medium"} THEN "MEDIUM"
    ELSE IF s \in {"LOW", "low"} THEN "LOW"
    ELSE IF s \in {"", " "} THEN ""
    ELSE s

\* the rank the tests expect of post_comment.severity_rank: lower is more
\* severe, an unknown or blank severity ranks as MEDIUM
severity_rank(severity) ==
    IF UpperStripped(severity) = "CRITICAL" THEN 0
    ELSE IF UpperStripped(severity) = "HIGH" THEN 1
    ELSE IF UpperStripped(severity) = "LOW" THEN 3
    ELSE 2

\* C30: only issues whose severity rank is at most the rank of the
\* configured minimum issue level are posted as review comments.
C30_PostedIssuesMeetMinLevel ==
    cout.op = "post" =>
        \A i \in cout.posted :
            severity_rank(cin.issues[i].severity) <= severity_rank(cin.min_issue_level)

\* ---------------------------------------------------------------------------
\* C37: a refresh run never mutates a file of the repository: the work tree
\* after the run is the work tree before it, whatever the dry-run checks found.
C37_RefreshLeavesWorkTreeAlone ==
    RefreshRan => files = cout.tree_before

\* a run whose dry-run check accepted a patch and which updated a comment
C37_Witness ==
    /\ RefreshRan
    /\ report.updated # {}
    /\ files = cout.tree_before

\* ---------------------------------------------------------------------------
\* whether git accepts the patch, newline-terminated, against the content
AppliesCleanly(content, patch) ==
    GitApply(content, IF Len(patch) > 0 /\ patch[Len(patch)] = NL
                      THEN patch ELSE patch \o <<NL>>).ok

\* C34: refresh updates a comment only after the patch the oracle returned was
\* normalized and fixed, the fixed patch passed format validation, and the
\* fixed, validated patch passed the dry-run check against the file; the
\* body it stores carries that fixed patch.
C34_UpdateOnlyAfterFixValidateCheck ==
    (cout.op = "refresh" /\ cout.status = "updated") =>
        Bind(normalize_and_fix_patch(cin.patch), LAMBDA p :
            /\ validate_patch_or_raise(p)
            /\ AppliesCleanly(cout.tree_before["F"], p)
            /\ comments[2].body =
                   replace_issue_data(
                       BotComment("F", IntLine(2)).body,
                       [extract_issue_data(BotComment("F", IntLine(2)).body) EXCEPT
                           !.patch = p,
                           !.file_hash = sha256(cout.tree_before["F"])]).out)

\* an update whose oracle patch was changed by the fix step
C34_Witness ==
    /\ cout.op = "refresh"
    /\ cout.status = "updated"
    /\ normalize_and_fix_patch(cin.patch) # cin.patch
    /\ AppliesCleanly(cout.tree_before["F"], normalize_and_fix_patch(cin.patch))

C36_DownstreamRefreshedAndDecodable ==
    (/\ RefreshRan
     /\ report.reached
     /\ report.failed = {}
     /\ Cardinality(Downstream) <= cin.max_comments) =>
        \A c \in Downstream :
            /\ StoredFileHash(comments[c].body) = sha256(files["F"])
            /\ extract_issue_data(comments[c].body) # NoneIssue

\* ---------------------------------------------------------------------------
\* the applied body is one with a block that decodes, a non-empty file and a
\* numeric line
AppliedBodyUsable == cin.kind = "usable"

\* no comment was updated and no update request was sent
NoUpdate ==
    /\ comments = cout.before
    /\ \A c \in RefreshIds : UpdateCalls(c) = 0

\* C38 (as stated): a run exits with 1 and updates no comment when the applied
\* body has no parseable ISSUE_DATA, no non-empty file or no numeric line, or
\* when the target file is missing; it exits with 0 and updates no comment
\* when there is no downstream candidate.
C38_ExitCodesAsStated ==
    RefreshRan =>
        /\ (~AppliedBodyUsable \/ "F" \notin DOMAIN cout.tree_before)
              => (cout.rc = 1 /\ NoUpdate)
        /\ (AppliedBodyUsable /\ Downstream = {})
              => (cout.rc = 0 /\ NoUpdate)

\* C38: with the token set, a run exits with 1 and updates no comment when the
\* applied body has no parseable ISSUE_DATA, no non-empty file or no numeric
\* line, or when the target file is missing and there is a downstream
\* candidate; it exits with 0 and updates no comment when the applied body is
\* usable and there is no downstream candidate, the target file missing or not.
C38_ExitCodes ==
    (RefreshRan /\ cin.env # "no_token") =>
        /\ ~AppliedBodyUsable => (cout.rc = 1 /\ NoUpdate)
        /\ (AppliedBodyUsable /\ Downstream # {}
               /\ "F" \notin DOMAIN cout.tree_before)
              => (cout.rc = 1 /\ NoUpdate)
        /\ (AppliedBodyUsable /\ Downstream = {})
              => (cout.rc = 0 /\ NoUpdate)

\* a run that found the target file missing while a downstream candidate
\* waited, and exited with 1
C38_Witness ==
    /\ RefreshRan
    /\ AppliedBodyUsable
    /\ Downstream # {}
    /\ "F" \notin DOMAIN cout.tree_before
    /\ cout.rc = 1
    /\ NoUpdate

\* ---------------------------------------------------------------------------
\* the number of should_apply lines a gate run wrote
ShouldApplyWrites ==
    Cardinality({i \in DOMAIN cout.outputs : cout.outputs[i].key = "should_apply"})

RaceOver == cout.op = "race" /\ cout.refresh_pc = "done" /\ cout.set_pc = "done"

\* C31: whatever the interleaving of a refresh run and a set-state run on one
\* comment, once both have finished and the set run exited with 0, the
\* comment carries the state the set run was asked to write: the refresh
\* update does not revert a marker written after its listing.
C31_SetStateSurvivesRefresh ==
    (RaceOver /\ cout.set_rc = 0) =>
        WrittenState(comments[RaceId].body) = cin.state

\* C32: whatever the interleaving of a set-state run and a refresh run on
\* one comment, once both have finished and refresh counted the comment as
\* updated, the comment stores the file_hash refresh wrote: the set run does
\* not overwrite a block refreshed after its fetch.
C32_RefreshSurvivesSetState ==
    (RaceOver /\ cout.status = "updated") =>
        StoredFileHash(comments[RaceId].body) = sha256(files["F"])

\* ---------------------------------------------------------------------------
\* C39: for every text, line and max_chars >= 0, the context that
\* extract_context_slices returns is at most max_chars characters long.
C39_ContextWithinMaxChars ==
    cout.op = "context" => cout.len <= cin.max_chars

====
